---- MODULE Spec2Model ----
(***************************************************************************)
(* Model of SpiderForce4AI: the job orchestrator                           *)
(* (src/src/utils/firecrawl.js, class ConcurrentCrawler, lines 464-1407),  *)
(* the results cache it shares with the single-URL conversion, and the     *)
(* single-URL requests (GET /convert and convertUrlToMarkdown in           *)
(* src/docker-compose.yml, FirecrawlAdapter.handleScrape).                 *)
(*                                                                         *)
(* One job is followed from createJob to the end of its driver             *)
(* (processJob).  JavaScript runs every handler to completion between two  *)
(* awaits, so one action of the model is one such segment: the code from   *)
(* one await (or from the call) up to the next await.  cancelJob is a      *)
(* synchronous handler and can run whenever the driver and its workers are *)
(* suspended, that is between any two actions.                             *)
(***************************************************************************)
EXTENDS Integers, Sequences, FiniteSets, TLC

\* ------------------------------------------------------------------ bounds
URLS == {"a", "b"}
MaxUrls == 3
MaxBatchSize == 2
ConcurrencyLimits == {1, 2}
RetryCounts == {1}

\* ----------------------------------------------------------------- helpers
Min(x, y) == IF x < y THEN x ELSE y

SeqsUpTo(S, n) == UNION {[1..k -> S] : k \in 0..n}

Range(s) == {s[i] : i \in DOMAIN s}

RECURSIVE SumOver(_, _)
SumOver(f, S) ==
  IF S = {} THEN 0
  ELSE LET x == CHOOSE y \in S : TRUE IN f[x] + SumOver(f, S \ {x})

\* new Set(urls) iterated: the URLs in order of first occurrence
RECURSIVE originalUrls(_)
originalUrls(us) ==
  IF us = <<>> THEN <<>>
  ELSE LET front == originalUrls(SubSeq(us, 1, Len(us) - 1))
           last  == us[Len(us)]
       IN IF last \in Range(front) THEN front ELSE Append(front, last)

\* job.processedUrlsMap is a JavaScript Map: insertion-ordered, one entry per
\* key.  It is the sequence of its values; every value carries its url.
MapHas(m, u) == \E i \in DOMAIN m : m[i].url = u

MapSetAppends(m, u, r) == Append(m, r)

MapSet(m, u, r) ==
  IF MapHas(m, u)
  THEN [i \in DOMAIN m |-> IF m[i].url = u THEN r ELSE m[i]]
  ELSE Append(m, r)

CountSuccess(m) == Cardinality({i \in DOMAIN m : m[i].success})

CountFailedUnfiltered(m) == Len(m)

CountFailed(m) == Cardinality({i \in DOMAIN m : ~m[i].success})

\* for (i = 0; i < urls.length; i += batchSize) batches.push(urls.slice(i, i + batchSize))
SplitBatches(us, bs) ==
  [k \in 1..((Len(us) + bs - 1) \div bs) |->
      SubSeq(us, (k - 1) * bs + 1, Min(k * bs, Len(us)))]

\* --------------------------------------------------------------- variables
VARIABLES
  cfg,               \* job.config and the source: fixed at createJob
  status, total, processed, success, failed, currentBatch, batches,
  results, processedUrlsMap, error,          \* the fields of the job object
  pc,                \* the await the driver (processJob) is suspended at
  batchIndex,        \* 1-based index of the batch being processed (0: none yet)
  nextItem,          \* processInBatches: next item of the batch to launch
  pendingPromises,   \* processInBatches: items whose promise is pending
  raceWon,           \* processInBatches: the awaited Promise.race has resolved
  workers,           \* per item of the running batch: the state of processFn
  envConfigured,     \* process.env as the server was started with
  env,               \* process.env after initRedis
  useRedis,          \* initRedis: the Redis client is connected
  cache,             \* per URL, the entry of the results cache (the tier in use)
  req,               \* the single-URL request in flight and its conversion
  reportFile,        \* last state written by saveJobState
  progressSent, progressPayload,   \* progress webhooks: number, last payload
  finalSent, finalPayload,         \* final webhooks: number, last payload
  startedCount,      \* history: per URL, outermost processUrl calls by processFn
  cancelledAt,       \* history: where the driver was when cancelJob first ran
                     \* on the job while its status was processing ("none": never)
  cancelCap,         \* history: k * batchSize if cancelJob ran between batch k and k+1
  hookFailed,        \* history: the webhooks whose POST failed (the number of the
                     \* batch for a progress webhook, 0 for the final webhook)
  pool,              \* a call of processInBatches followed on its own
  ladder,            \* a conversion followed through its fallback stages
  doc,               \* a call of convertToMarkdown: the HTML and what it returns
  redis,             \* the call of initRedis at server start followed on its own
  metrics            \* this.metrics of the crawler: the counters of processUrl

jobVars == <<status, total, processed, success, failed, currentBatch, batches,
             results, processedUrlsMap, error>>
poolVars == <<nextItem, pendingPromises, raceWon, workers>>
hookVars == <<progressSent, progressPayload, finalSent, finalPayload>>
histVars == <<cancelledAt, cancelCap>>
envVars == <<envConfigured, env, useRedis>>
unitVars == <<pool, ladder, doc, redis>>
vars == <<cfg, envVars, unitVars, metrics, hookFailed, req, jobVars, pc, batchIndex, poolVars, cache, reportFile,
          hookVars, startedCount, histVars>>

NoResult == [url |-> "", success |-> FALSE, error |-> ""]

NoWorker == [pc |-> "idle", url |-> "", retry |-> 0, closing |-> 0,
             page |-> FALSE, res |-> NoResult]

NoSummary == [status |-> "none", total |-> 0, processed |-> 0, successful |-> 0,
              failed |-> 0]

Configs ==
  [urls : SeqsUpTo(URLS, MaxUrls),
   batchSize : 1..MaxBatchSize, maxConcurrent : ConcurrencyLimits,
   retryCount : RetryCounts, nocache : BOOLEAN,
   webhook : {"none", "final", "progress"}]

\* ------------------------------------------------------- the results cache
\* process.env: USE_REDIS is none or names a Redis, DISABLE_ALL_CACHING is
\* unset or one of the strings true and false.
Envs == [USE_REDIS : {"none", "internal"}, DISABLE_ALL_CACHING : {"unset", "true", "false"}]

\* .env.example (src/unnamed/part_001, lines 20-23)
DefaultEnv == [USE_REDIS |-> "none", DISABLE_ALL_CACHING |-> "false"]

\* initRedis (267-463): without a Redis all caching is disabled unless
\* DISABLE_ALL_CACHING is the string false; with one, useRedis tells whether
\* the connection test succeeded.
initRedis(e, connects) ==
  IF e.USE_REDIS = "none"
  THEN [env |-> [e EXCEPT !.DISABLE_ALL_CACHING = IF @ # "false" THEN "true" ELSE @],
        useRedis |-> FALSE]
  ELSE [env |-> e, useRedis |-> connects]

\* isRedisEnabled (500-506)
isRedisEnabled == env.USE_REDIS # "none" /\ useRedis

\* The master switch
disableAllCaching == env.DISABLE_ALL_CACHING = "true"

\* A markdown document by what went into it: convertToMarkdown drops the
\* images under remove_images (converter.js 59-61), cleanContent returns the
\* whole body under aggressive_cleaning = false (cleaner.js 201-204); header
\* tells whether the URL and metadata lines precede the markdown.
NoContent == [header |-> FALSE, images |-> FALSE, cleaned |-> FALSE, none |-> TRUE]

convertToMarkdown(options) ==
  [header |-> FALSE, images |-> ~options.remove_images,
   cleaned |-> options.aggressive_cleaning, none |-> FALSE]

\* processUrl (946-977): the cleaning options of a job default to aggressive
\* cleaning with images kept; the content of the result is the markdown.
JobOptions == [aggressive_cleaning |-> TRUE, remove_images |-> FALSE]

\* A cache entry: the content of the cached object, and who stored it
\* (processUrl, or single for GET /convert and convertUrlToMarkdown)
NoEntry == [content |-> NoContent, by |-> "none"]

processUrlEntry == [content |-> convertToMarkdown(JobOptions), by |-> "processUrl"]

\* getCacheByKey (529-548): the entry under the key of URL u, none under the
\* master switch.  JSON.parse of the JSON.stringify of an entry (strings and
\* a boolean) is the entry.
getCacheByKey(u) == IF disableAllCaching THEN NoEntry ELSE cache[u]

\* setCacheByKey (557-576): the cache after the call
setCacheByKey(u, data, bypassCache) ==
  IF disableAllCaching \/ bypassCache THEN cache ELSE [cache EXCEPT ![u] = data]

\* The single-URL request in flight: the route (GET /convert or the scrape
\* route), the innermost invocation of convertUrlToMarkdown or handleScrape
\* (the invocations that called it have returned its promise and are at most
\* closing their page), and what the request did so far.
NoRequest ==
  [kind |-> "none",            \* "convert" or "scrape"
   options |-> [nocache |-> FALSE, aggressive_cleaning |-> TRUE, remove_images |-> FALSE],
   rpc |-> "idle",              \* the route: idle, get, conv, set, sent
   routeBypass |-> FALSE,       \* bypassCache of the route (460)
   pc |-> "none",               \* the await the innermost invocation is suspended at
   retryCount |-> 0, fallbackStage |-> 0,
   page |-> 0,                  \* its page: 0 is null, else the number of the page
   bypassCache |-> FALSE,       \* its bypassCache (116)
   outcome |-> "none",          \* "result" or "error" once it returns or throws
   result |-> NoContent,
   closing |-> {},              \* pages of retried invocations, closePage pending
   pages |-> <<>>,              \* per page acquired, the closePage calls that resolved
   navigations |-> 0,
   response |-> [status |-> "none", content |-> NoContent],
   asked |-> FALSE,             \* history: nocache as the client sent it
   source |-> "none",           \* history: cache, pipeline or emergency
   lens |-> <<>>,               \* history: per stage run, markdown under the threshold?
   errored |-> FALSE]           \* history: an await of the conversion threw

\* No call of processInBatches is followed on its own
NoPool ==
  [items |-> <<>>,      \* per item, what processFn does with it
   limit |-> 1,         \* concurrencyLimit
   pc |-> "none",       \* start, race, all, returned or thrown
   next |-> 1,          \* the next item the for loop launches
   pending |-> {},      \* pendingPromises: the items whose promise is pending
   won |-> 0,           \* the first item to settle since Promise.race was called
   allOf |-> {},        \* the items whose promises were passed to Promise.all
   results |-> <<>>,    \* the local array results
   returned |-> <<>>]   \* the array processInBatches returned

\* A setting that was not given (an option that is undefined, an environment
\* variable that is not set), or its number
NotGiven == [given |-> FALSE, value |-> 0]

Given(v) == [given |-> TRUE, value |-> v]

\* No conversion is followed through its stages
NoLadder ==
  [min_content_length |-> NotGiven,        \* options.min_content_length
   MIN_CONTENT_LENGTH |-> NotGiven,        \* process.env.MIN_CONTENT_LENGTH
   aggressive_cleaning |-> "undefined",    \* options.aggressive_cleaning: true, false
   AGGRESSIVE_CLEANING |-> "unset",        \* process.env.AGGRESSIVE_CLEANING
   pc |-> "none",                          \* probe, scroll, convert or done
   fallbackStage |-> 0,
   scrolled |-> <<>>,                      \* per stage run: did it scroll?
   cleaning |-> <<>>]                      \* per stage run: aggressive_cleaning of cleanContent

\* No call of convertToMarkdown is followed
\* No call of initRedis is followed on its own
NoRedis ==
  [USE_REDIS |-> "none",            \* process.env, "unset" if not set
   EXTERNAL_REDIS_URL |-> FALSE,    \* set and not empty
   DISABLE_ALL_CACHING |-> "unset",
   ended |-> FALSE,                 \* the client was disconnected or gave up
   pc |-> "none",                   \* start, race (await Promise.race), done
   useRedis |-> FALSE, redisClient |-> FALSE,   \* the client is not null
   redisInitialized |-> FALSE,
   race |-> "none",                 \* the raced promise: pending, true, rejected
   timer |-> FALSE,                 \* the 10 s connection timeout is armed
   onConnect |-> FALSE, onError |-> FALSE,      \* the once handlers still registered
   probe |-> "none",                \* the test: set or get in flight, done
   connected |-> FALSE,             \* history: the connect event fired
   value |-> "none",                \* history: what the get of the test returned
   failure |-> FALSE]               \* history: a load, connect, test or timeout failure

\* this.metrics (482-488), the counters only
NoMetrics == [totalProcessed |-> 0, successCount |-> 0, failCount |-> 0]

NoDoc == [html |-> <<>>, pc |-> "none", path |-> "none", out |-> <<>>]

\* createJob, up to the call of processJob
Init ==
  /\ cfg \in Configs
  /\ status = "pending"
  /\ total = 0 /\ processed = 0 /\ success = 0 /\ failed = 0
  /\ currentBatch = 0
  /\ batches = <<>>
  /\ results = <<>>
  /\ processedUrlsMap = <<>>
  /\ error = ""
  /\ pc = "created"
  /\ batchIndex = 0
  /\ nextItem = 1
  /\ pendingPromises = {}
  /\ raceWon = FALSE
  /\ workers = <<>>
  /\ envConfigured = DefaultEnv
  /\ env = initRedis(envConfigured, FALSE).env
  /\ useRedis = initRedis(envConfigured, FALSE).useRedis
  /\ cache \in IF cfg.nocache THEN {[u \in URLS |-> NoEntry]}
               ELSE {[u \in URLS |-> NoEntry],
                     [u \in URLS |-> IF u = "a" THEN processUrlEntry ELSE NoEntry]}
  /\ req = NoRequest
  /\ hookFailed = {}
  /\ pool = NoPool /\ ladder = NoLadder /\ doc = NoDoc /\ redis = NoRedis
  /\ metrics = NoMetrics
  /\ reportFile = NoSummary
  /\ progressSent = 0 /\ progressPayload = NoSummary
  /\ finalSent = 0 /\ finalPayload = NoSummary
  /\ startedCount = [u \in URLS |-> 0]
  /\ cancelledAt = "none"
  /\ cancelCap = -1

\* ------------------------------------------------- saveJobState (1091-1128)
\* The summary saveJobState writes; for a completed job it first sets
\* job.total to job.processed.
saveJobStateTotalUnfixed(st, tot, proc) == tot

saveJobStateTotal(st, tot, proc) ==
  IF st = "completed" /\ tot # proc THEN proc ELSE tot

saveJobStateNotWritten(st, tot, proc, succ, fl) == [reportFile EXCEPT !.total = tot]

saveJobState(st, tot, proc, succ, fl) ==
  [status |-> st, total |-> saveJobStateTotal(st, tot, proc), processed |-> proc,
   successful |-> succ, failed |-> fl]

\* ------------------------------------------------- getJobStatus (1281-1327)
getJobStatus ==
  [status |-> status,
   total |-> IF status = "completed" /\ total # processed THEN processed ELSE total,
   processed |-> processed, successful |-> success, failed |-> failed]

\* ------------------------------------------------ getJobResults (1378-1404)
getJobResults ==
  [status |-> status, total |-> total, processed |-> processed,
   successful |-> success, failed |-> failed]

\* --------------------------------------------- processInBatches (1052-1085)
\* processFn of processJob (792-805) up to its first await: a URL already in
\* the map is returned from the map, any other URL enters processUrl, which
\* suspends at the cache lookup or, with nocache, at createPage.
processFnStart(u, map) ==
  [NoWorker EXCEPT !.url = u,
     !.pc = IF MapHas(map, u) THEN "skip"
            ELSE IF cfg.nocache THEN "create" ELSE "cache"]

\* The for loop of processInBatches from item `first` to its next await:
\* items are launched until the pending set reaches the concurrency limit
\* (await Promise.race) or the items are exhausted (await Promise.all).
LaunchItems(batch, map, first, pend, wk) ==
  LET n == Len(batch)
      m == Min(cfg.maxConcurrent - Cardinality(pend), n - first + 1)
      launched == first..(first + m - 1)
      pend2 == pend \cup launched
  IN /\ workers' = [i \in 1..n |->
                      IF i \in launched THEN processFnStart(batch[i], map) ELSE wk[i]]
     /\ pendingPromises' = pend2
     /\ startedCount' = [u \in URLS |-> startedCount[u] +
            Cardinality({i \in launched : batch[i] = u /\ ~MapHas(map, u)})]
     /\ raceWon' = FALSE
     /\ IF m >= 1 /\ Cardinality(pend2) >= cfg.maxConcurrent
        THEN pc' = "race" /\ nextItem' = first + m
        ELSE pc' = "all" /\ nextItem' = n + 1

\* The promise of item i settles: its finally removes it from pendingPromises.
Settle(i, w) ==
  /\ workers' = [workers EXCEPT ![i] = [NoWorker EXCEPT !.pc = "done", !.url = w.url]]
  /\ pendingPromises' = pendingPromises \ {i}
  /\ raceWon' = (raceWon \/ pc = "race")

\* ----------------------------------------------------- processJob (736-894)
\* Lines 840-880: the job is finalized.  URLs of the source without a result
\* are added as failures when the counts do not add up to total, the counts
\* are recomputed from the map, and the state is saved.
missingUrls(res, us) ==
  SelectSeq(originalUrls(us), LAMBDA u : u \notin {res[i].url : i \in DOMAIN res})

failResult(u) == [url |-> u, success |-> FALSE, error |-> "URL was skipped during processing"]

skippedResultsNone(res, tot) == <<>>

skippedResults(res, tot) ==
  IF success + failed # tot
  THEN LET miss == missingUrls(res, cfg.urls)
       IN [i \in DOMAIN miss |-> failResult(miss[i])]
  ELSE <<>>

Finalize(tot, map, res) ==
  LET added == skippedResults(res, tot)
      map2 == map \o added
      proc == Len(map2)
      succ == CountSuccess(map2)
      fl   == CountFailed(map2)
      rep  == saveJobState("completed", tot, proc, succ, fl)
  IN /\ status' = "completed"
     /\ results' = res \o added
     /\ processedUrlsMap' = map2
     /\ processed' = proc /\ success' = succ /\ failed' = fl
     /\ total' = rep.total
     /\ reportFile' = rep
     /\ pc' = "finalsave"
     /\ UNCHANGED <<batchIndex, poolVars, startedCount>>

LoopTopIgnoresCancel(bi, st, bs, tot, map, res) ==
  IF bi <= Len(bs)
  THEN /\ currentBatch' = bi
       /\ batchIndex' = bi
       /\ LaunchItems(bs[bi], map, 1, {}, [i \in 1..Len(bs[bi]) |-> NoWorker])
       /\ status' = st /\ total' = tot
       /\ processedUrlsMap' = map /\ results' = res
       /\ UNCHANGED <<processed, success, failed, reportFile>>
  ELSE /\ Finalize(tot, map, res)
       /\ UNCHANGED currentBatch

\* Lines 776-807: the head of the loop over the batches for batch number bi
\* (1-based), in a job whose status is st.
LoopTop(bi, st, bs, tot, map, res) ==
  IF bi <= Len(bs)
  THEN /\ currentBatch' = bi
       /\ IF st = "cancelled"
          THEN Finalize(tot, map, res)
          ELSE /\ batchIndex' = bi
               /\ LaunchItems(bs[bi], map, 1, {}, [i \in 1..Len(bs[bi]) |-> NoWorker])
               /\ status' = st /\ total' = tot
               /\ processedUrlsMap' = map /\ results' = res
               /\ UNCHANGED <<processed, success, failed, reportFile>>
  ELSE /\ Finalize(tot, map, res)
       /\ UNCHANGED currentBatch

FailJobKeepsStatus(msg) ==
  /\ status' = status
  /\ error' = msg
  /\ reportFile' = saveJobState(status, total, processed, success, failed)
  /\ pc' = "failsave"
  /\ UNCHANGED <<total, processed, success, failed, currentBatch, batches, results,
                 processedUrlsMap, batchIndex, poolVars, startedCount>>

\* Lines 888-893: the catch of processJob
FailJob(msg) ==
  /\ status' = "failed"
  /\ error' = msg
  /\ reportFile' = saveJobState("failed", total, processed, success, failed)
  /\ pc' = "failsave"
  /\ UNCHANGED <<total, processed, success, failed, currentBatch, batches, results,
                 processedUrlsMap, batchIndex, poolVars, startedCount>>

StartProcessingTotalIsBatches(st) ==
  IF Len(cfg.urls) = 0
  THEN FailJob("No valid URLs found")
  ELSE /\ batches' = SplitBatches(cfg.urls, cfg.batchSize)
       /\ error' = error
       /\ LoopTop(1, st, SplitBatches(cfg.urls, cfg.batchSize),
                  Len(SplitBatches(cfg.urls, cfg.batchSize)), <<>>, <<>>)

\* Lines 752-807 once the URLs of the source are known.
StartProcessing(st) ==
  IF Len(cfg.urls) = 0
  THEN FailJob("No valid URLs found")
  ELSE /\ batches' = SplitBatches(cfg.urls, cfg.batchSize)
       /\ error' = error
       /\ LoopTop(1, st, SplitBatches(cfg.urls, cfg.batchSize), Len(cfg.urls), <<>>, <<>>)

\* createJob calls processJob, which runs to its first await (736-807); the
\* source of the job is a sitemap (config.sitemapUrl) or a list (config.urls)
\* whose URLs are cfg.urls.
processJob(source) ==
  /\ pc = "created"
  /\ IF source = "sitemap"
     THEN /\ status' = "processing"
          /\ pc' = "fetch"
          /\ UNCHANGED <<total, processed, success, failed, currentBatch, batches,
                         results, processedUrlsMap, error, batchIndex, poolVars,
                         startedCount, reportFile>>
     ELSE StartProcessing("processing")
  /\ UNCHANGED <<cfg, envVars, unitVars, metrics, hookFailed, req, cache, hookVars, histVars>>

\* await fetchSitemapUrls returns the URLs of the sitemap (747)
FetchDone ==
  /\ pc = "fetch"
  /\ StartProcessing(status)
  /\ UNCHANGED <<cfg, envVars, unitVars, metrics, hookFailed, req, cache, hookVars, histVars>>

\* await fetchSitemapUrls throws (726-729)
FetchFail ==
  /\ pc = "fetch"
  /\ FailJob("Sitemap fetch error")
  /\ UNCHANGED <<cfg, envVars, unitVars, metrics, hookFailed, req, cache, hookVars, histVars>>

\* Promise.race resolved (1074-1076): the loop goes on with the next items
ResumeRace ==
  /\ pc = "race" /\ raceWon
  /\ LaunchItems(batches[batchIndex], processedUrlsMap, nextItem, pendingPromises, workers)
  /\ UNCHANGED <<cfg, envVars, unitVars, metrics, hookFailed, req, jobVars, batchIndex, cache, reportFile, hookVars, histVars>>

BatchDoneWithoutPromiseAll ==
  /\ pc = "all"
  /\ results' = processedUrlsMap
  /\ processed' = Len(processedUrlsMap)
  /\ success' = CountSuccess(processedUrlsMap)
  /\ failed' = CountFailed(processedUrlsMap)
  /\ reportFile' = saveJobState(status, total, Len(processedUrlsMap),
                                CountSuccess(processedUrlsMap), CountFailed(processedUrlsMap))
  /\ total' = reportFile'.total
  /\ pc' = "save"
  /\ UNCHANGED <<cfg, envVars, unitVars, metrics, hookFailed, req, status, currentBatch, batches, processedUrlsMap, error,
                 batchIndex, poolVars, cache, hookVars, startedCount, histVars>>

\* Promise.all resolved (1080): lines 809-825, the outcomes of the batch are
\* recorded, the counts recomputed from the map and the state saved.
BatchDone ==
  /\ pc = "all" /\ pendingPromises = {}
  /\ results' = processedUrlsMap
  /\ processed' = Len(processedUrlsMap)
  /\ success' = CountSuccess(processedUrlsMap)
  /\ failed' = CountFailed(processedUrlsMap)
  /\ reportFile' = saveJobState(status, total, Len(processedUrlsMap),
                                CountSuccess(processedUrlsMap), CountFailed(processedUrlsMap))
  /\ total' = reportFile'.total
  /\ pc' = "save"
  /\ UNCHANGED <<cfg, envVars, unitVars, metrics, hookFailed, req, status, currentBatch, batches, processedUrlsMap, error,
                 batchIndex, poolVars, cache, hookVars, startedCount, histVars>>

\* sendProgressWebhook (1135-1173): the payload is built from the job fields
sendProgressWebhook ==
  [status |-> "in_progress", total |-> total, processed |-> processed,
   successful |-> success, failed |-> failed]

\* Lines 834-838 and the next head of the loop: the delay is awaited unless
\* the batch was the last one.
AfterBatch ==
  IF batchIndex < Len(batches)
  THEN /\ pc' = "delay"
       /\ UNCHANGED <<jobVars, batchIndex, poolVars, reportFile, startedCount>>
  ELSE /\ LoopTop(batchIndex + 1, status, batches, total, processedUrlsMap, results)
       /\ UNCHANGED <<batches, error>>

\* await saveJobState returned (825-832)
AfterSave ==
  /\ pc = "save"
  /\ IF cfg.webhook = "progress"
     THEN /\ progressSent' = progressSent + 1
          /\ progressPayload' = sendProgressWebhook
          /\ pc' = "progress"
          /\ UNCHANGED <<jobVars, batchIndex, poolVars, reportFile, startedCount,
                         finalSent, finalPayload>>
     ELSE /\ AfterBatch
          /\ UNCHANGED hookVars
  /\ UNCHANGED <<cfg, envVars, unitVars, metrics, hookFailed, req, cache, histVars>>

\* await sendProgressWebhook returned, the webhook delivered (829-831)
AfterProgress ==
  /\ pc = "progress"
  /\ AfterBatch
  /\ UNCHANGED <<cfg, envVars, unitVars, metrics, hookFailed, req, cache, hookVars, histVars>>

\* The POST of the progress webhook of this batch failed or timed out:
\* sendProgressWebhook logs the error (1170-1172) and returns, and the driver
\* goes on as after a delivered webhook
ProgressWebhookFailed ==
  /\ pc = "progress"
  /\ AfterBatch
  /\ hookFailed' = hookFailed \cup {batchIndex}
  /\ UNCHANGED <<cfg, envVars, unitVars, metrics, req, cache, hookVars, histVars>>

\* the processing delay has elapsed (836)
AfterDelay ==
  /\ pc = "delay"
  /\ LoopTop(batchIndex + 1, status, batches, total, processedUrlsMap, results)
  /\ UNCHANGED <<cfg, envVars, unitVars, metrics, hookFailed, req, batches, error, cache, hookVars, histVars>>

\* sendWebhook (1179-1274): the payload of the final webhook
sendWebhook ==
  [status |-> status, total |-> total, processed |-> processed,
   successful |-> success, failed |-> failed]

\* await saveJobState returned after the job was finalized (880-887)
AfterFinalSave ==
  /\ pc = "finalsave"
  /\ IF cfg.webhook # "none"
     THEN /\ finalSent' = finalSent + 1
          /\ finalPayload' = sendWebhook
          /\ pc' = "finalhook"
     ELSE /\ pc' = "done"
          /\ UNCHANGED <<finalSent, finalPayload>>
  /\ UNCHANGED <<cfg, envVars, unitVars, metrics, hookFailed, req, jobVars, batchIndex, poolVars, cache, reportFile,
                 progressSent, progressPayload, startedCount, histVars>>

\* await sendWebhook returned, the webhook delivered (884-886)
AfterFinalHook ==
  /\ pc = "finalhook"
  /\ pc' = "done"
  /\ UNCHANGED <<cfg, envVars, unitVars, metrics, hookFailed, req, jobVars, batchIndex, poolVars, cache, reportFile, hookVars,
                 startedCount, histVars>>

FinalWebhookRethrown ==
  /\ pc = "finalhook"
  /\ FailJob("webhook error")
  /\ hookFailed' = hookFailed \cup {0}
  /\ UNCHANGED <<cfg, envVars, unitVars, metrics, req, cache, hookVars, histVars>>

\* The POST of the final webhook failed or timed out: sendWebhook rethrows
\* the error (1270-1273) and the catch at the call logs it (884-886)
FinalWebhookFailed ==
  /\ pc = "finalhook"
  /\ pc' = "done"
  /\ hookFailed' = hookFailed \cup {0}
  /\ UNCHANGED <<cfg, envVars, unitVars, metrics, req, jobVars, batchIndex, poolVars, cache, reportFile,
                 hookVars, startedCount, histVars>>

\* await saveJobState returned in the catch of processJob (891)
AfterFailSave ==
  /\ pc = "failsave"
  /\ pc' = "done"
  /\ UNCHANGED <<cfg, envVars, unitVars, metrics, hookFailed, req, jobVars, batchIndex, poolVars, cache, reportFile, hookVars,
                 startedCount, histVars>>

\* ----------------------------------------------------- processUrl (902-1043)
WorkerStep(i, w) ==
  /\ workers' = [workers EXCEPT ![i] = w]
  /\ UNCHANGED <<pendingPromises, raceWon>>

okResult(u) == [url |-> u, success |-> TRUE, error |-> ""]

errorResult(u) == [url |-> u, success |-> FALSE, error |-> "error"]

\* Lines 794-797: processFn returns the result already in the map
SkipReturn(i) ==
  /\ i \in pendingPromises /\ workers[i].pc = "skip"
  /\ Settle(i, workers[i])
  /\ UNCHANGED <<cfg, envVars, unitVars, metrics, hookFailed, req, jobVars, pc, batchIndex, nextItem, cache, reportFile,
                 hookVars, startedCount, histVars>>

\* Lines 919-937: await getCacheByKey returned; a hit is returned as the result
CacheLookup(i) ==
  /\ i \in pendingPromises /\ workers[i].pc = "cache"
  /\ LET w == workers[i]
     IN IF getCacheByKey(w.url) # NoEntry
        THEN WorkerStep(i, [w EXCEPT !.pc = "ret", !.res = okResult(w.url)])
        ELSE WorkerStep(i, [w EXCEPT !.pc = "create"])
  /\ UNCHANGED <<cfg, envVars, unitVars, metrics, hookFailed, req, jobVars, pc, batchIndex, nextItem, cache, reportFile,
                 hookVars, startedCount, histVars>>

\* Line 955: await browserManager.createPage returned a page
CreatePage(i) ==
  /\ i \in pendingPromises /\ workers[i].pc = "create"
  /\ WorkerStep(i, [workers[i] EXCEPT !.pc = "work", !.page = TRUE])
  /\ UNCHANGED <<cfg, envVars, unitVars, metrics, hookFailed, req, jobVars, pc, batchIndex, nextItem, cache, reportFile,
                 hookVars, startedCount, histVars>>

updateMetricsForgetsFailCount(m, ok) ==
  [m EXCEPT !.totalProcessed = @ + 1, !.successCount = IF ok THEN @ + 1 ELSE @]

\* Lines 989-991 and 1028-1030: the counters after a URL was processed
updateMetrics(m, ok) ==
  [m EXCEPT !.totalProcessed = @ + 1,
            !.successCount = IF ok THEN @ + 1 ELSE @,
            !.failCount = IF ok THEN @ ELSE @ + 1]

\* Line 1003: shouldRetry
shouldRetry(w, kind) == w.retry < cfg.retryCount /\ kind = "transient"

\* Line 955: await browserManager.createPage threw; the catch retries or
\* builds the error result, and the finally finds no page to close.
CreatePageFail(i, kind) ==
  /\ i \in pendingPromises /\ workers[i].pc = "create"
  /\ LET w == workers[i]
     IN IF shouldRetry(w, kind)
        THEN WorkerStep(i, [w EXCEPT !.pc = "sleep"]) /\ UNCHANGED metrics
        ELSE /\ WorkerStep(i, [w EXCEPT !.res = errorResult(w.url), !.pc = "ret"])
             /\ metrics' = updateMetrics(metrics, FALSE)
  /\ UNCHANGED <<cfg, envVars, unitVars, hookFailed, req, jobVars, pc, batchIndex, nextItem, cache, reportFile,
                 hookVars, startedCount, histVars>>

\* Lines 958-1033: navigation, extraction, cleaning and conversion succeed,
\* or one of them throws a transient or another error.  The metrics are
\* updated where the result is built: at once for an error that is not
\* retried and for a success under nocache, after setCacheByKey otherwise.
Pipeline(i, kind) ==
  /\ i \in pendingPromises /\ workers[i].pc = "work"
  /\ LET w == workers[i]
     IN IF kind = "ok"
        THEN /\ WorkerStep(i, [w EXCEPT !.res = okResult(w.url),
                                        !.pc = IF cfg.nocache THEN "close" ELSE "setcache"])
             /\ metrics' = IF cfg.nocache THEN updateMetrics(metrics, TRUE) ELSE metrics
        ELSE IF shouldRetry(w, kind)
        THEN WorkerStep(i, [w EXCEPT !.pc = "sleep"]) /\ UNCHANGED metrics
        ELSE /\ WorkerStep(i, [w EXCEPT !.res = errorResult(w.url), !.pc = "close"])
             /\ metrics' = updateMetrics(metrics, FALSE)
  /\ UNCHANGED <<cfg, envVars, unitVars, hookFailed, req, jobVars, pc, batchIndex, nextItem, cache, reportFile,
                 hookVars, startedCount, histVars>>

\* Lines 985-996: await setCacheByKey returned and the metrics are updated
SetCache(i) ==
  /\ i \in pendingPromises /\ workers[i].pc = "setcache"
  /\ cache' = setCacheByKey(workers[i].url, processUrlEntry, FALSE)
  /\ WorkerStep(i, [workers[i] EXCEPT !.pc = "close"])
  /\ metrics' = updateMetrics(metrics, TRUE)
  /\ UNCHANGED <<cfg, envVars, unitVars, hookFailed, req, jobVars, pc, batchIndex, nextItem, reportFile,
                 hookVars, startedCount, histVars>>

\* Lines 1011-1012 and 1035-1042: the retry delay has elapsed.  processUrl is
\* called again and runs to its first await; only then does the finally of
\* the failed attempt start to close its page.
RetryUrl(i) ==
  /\ i \in pendingPromises /\ workers[i].pc = "sleep"
  /\ LET w == workers[i]
     IN WorkerStep(i, [w EXCEPT !.retry = w.retry + 1,
                                !.closing = w.closing + (IF w.page THEN 1 ELSE 0),
                                !.page = FALSE,
                                !.pc = IF cfg.nocache THEN "create" ELSE "cache"])
  /\ UNCHANGED <<cfg, envVars, unitVars, metrics, hookFailed, req, jobVars, pc, batchIndex, nextItem, cache, reportFile,
                 hookVars, startedCount, histVars>>

\* Lines 1035-1042: closePage of the attempt that returned has resolved
ClosePage(i) ==
  /\ i \in pendingPromises /\ workers[i].pc = "close"
  /\ WorkerStep(i, [workers[i] EXCEPT !.pc = "ret", !.page = FALSE])
  /\ UNCHANGED <<cfg, envVars, unitVars, metrics, hookFailed, req, jobVars, pc, batchIndex, nextItem, cache, reportFile,
                 hookVars, startedCount, histVars>>

\* Lines 1035-1042: closePage of an attempt that was retried has resolved
CloseRetriedPage(i) ==
  /\ i \in pendingPromises /\ workers[i].closing > 0
  /\ WorkerStep(i, [workers[i] EXCEPT !.closing = workers[i].closing - 1])
  /\ UNCHANGED <<cfg, envVars, unitVars, metrics, hookFailed, req, jobVars, pc, batchIndex, nextItem, cache, reportFile,
                 hookVars, startedCount, histVars>>

\* Lines 799-804: processUrl returned to processFn, which stores the result
ProcessFnReturn(i) ==
  /\ i \in pendingPromises /\ workers[i].pc = "ret" /\ workers[i].closing = 0
  /\ processedUrlsMap' = MapSet(processedUrlsMap, workers[i].url, workers[i].res)
  /\ Settle(i, workers[i])
  /\ UNCHANGED <<cfg, envVars, unitVars, metrics, hookFailed, req, status, total, processed, success, failed, currentBatch,
                 batches, results, error, pc, batchIndex, nextItem, cache,
                 reportFile, hookVars, startedCount, histVars>>

\* ----------------------------------------------------- cancelJob (1334-1354)
\* The job is in this.jobs from createJob on; the handler runs between two
\* segments of the driver.
cancelJob ==
  /\ pc # "created"
  /\ status' = "cancelled"
  /\ cancelledAt' = IF cancelledAt = "none" /\ status = "processing" THEN pc ELSE cancelledAt
  /\ cancelCap' = IF cancelCap = -1 /\ status = "processing"
                     /\ pc \in {"save", "progress", "delay"}
                  THEN batchIndex * cfg.batchSize
                  ELSE cancelCap
  /\ UNCHANGED <<cfg, envVars, unitVars, metrics, hookFailed, req, total, processed, success, failed, currentBatch, batches,
                 results, processedUrlsMap, error, pc, batchIndex, poolVars, cache,
                 reportFile, hookVars, startedCount>>

\* ------------------------- convertUrlToMarkdown (src/docker-compose.yml 108-363)
MAX_RETRIES == 2

\* The URL of the single-URL requests
ReqUrl == "a"

\* A request acquires one page per stage and one per retry
MaxPages == 3 + MAX_RETRIES

\* The request and the cache as one value: the code between two
\* awaits is a composition of the operators below.
Machine == [req |-> req, cache |-> cache]

\* What a step of a single-URL request leaves alone
jobSide == <<cfg, envVars, unitVars, metrics, hookFailed, jobVars, pc, batchIndex, poolVars, reportFile, hookVars,
             startedCount, histVars>>

Apply(m) ==
  /\ req' = m.req /\ cache' = m.cache
  /\ UNCHANGED jobSide

settleWithoutFinally(m, outcome, content) ==
  [m EXCEPT !.req.outcome = outcome, !.req.result = content, !.req.pc = "settled"]

\* return or throw in the innermost invocation: the finally (357-362, 64-68)
\* awaits closePage when the invocation holds a page
settle(m, outcome, content) ==
  [m EXCEPT !.req.outcome = outcome, !.req.result = content,
            !.req.pc = IF m.req.page # 0 THEN "close" ELSE "settled"]

\* Lines 146-183: the try block up to await createPage
tryBody(m) == [m EXCEPT !.req.pc = "create"]

\* Lines 126-137: the cache was read; a hit returns the content of the entry
cacheChecked(m) ==
  IF m.cache[ReqUrl] # NoEntry
  THEN settle([m EXCEPT !.req.source = "cache"], "result", m.cache[ReqUrl].content)
  ELSE tryBody(m)

\* Lines 108-183: a call of convertUrlToMarkdown up to its first await.  The
\* master switch sets options.nocache in the options object of the request.
convertUrlToMarkdown(m, retryCount, fallbackStage) ==
  LET nocache == m.req.options.nocache \/ disableAllCaching
      m1 == [m EXCEPT !.req.options.nocache = nocache,
                      !.req.retryCount = retryCount,
                      !.req.fallbackStage = fallbackStage,
                      !.req.page = 0,
                      !.req.bypassCache = nocache]
  IN IF nocache THEN tryBody(m1)
     ELSE IF isRedisEnabled THEN [m1 EXCEPT !.req.pc = "get"]
     ELSE cacheChecked(m1)

\* Lines 289-307 and 507-525: the result is stored under the key of the URL
stored(m, by) ==
  [m EXCEPT !.cache[ReqUrl] = [content |-> m.req.result, by |-> by]]

emergencyCheckedRethrows(m) == settle(m, "error", NoContent)

\* Lines 329-356: the emergency lookup was made; a hit is returned, a miss
\* rethrows the error
emergencyChecked(m) ==
  IF m.cache[ReqUrl] # NoEntry
  THEN settle([m EXCEPT !.req.source = "emergency"], "result", m.cache[ReqUrl].content)
  ELSE settle(m, "error", NoContent)

catchErrorRetriesAnyKind(m, kind) ==
  LET r == m.req
      m0 == [m EXCEPT !.req.errored = TRUE]
  IN IF r.retryCount < MAX_RETRIES
     THEN convertUrlToMarkdown(
            [m0 EXCEPT !.req.closing = IF r.page # 0 THEN @ \cup {r.page} ELSE @],
            r.retryCount + 1, r.fallbackStage)
     ELSE IF r.bypassCache THEN settle(m0, "error", NoContent)
     ELSE IF isRedisEnabled THEN [m0 EXCEPT !.req.pc = "eget"]
     ELSE emergencyChecked(m0)

\* Lines 315-356: the catch of convertUrlToMarkdown for an error of this kind.
\* A retry calls convertUrlToMarkdown before the finally of this invocation
\* starts to close its page.
catchError(m, kind) ==
  LET r == m.req
      m0 == [m EXCEPT !.req.errored = TRUE]
  IN IF r.retryCount < MAX_RETRIES /\ kind = "transient"
     THEN convertUrlToMarkdown(
            [m0 EXCEPT !.req.closing = IF r.page # 0 THEN @ \cup {r.page} ELSE @],
            r.retryCount + 1, r.fallbackStage)
     ELSE IF r.bypassCache THEN settle(m0, "error", NoContent)
     ELSE IF isRedisEnabled THEN [m0 EXCEPT !.req.pc = "eget"]
     ELSE emergencyChecked(m0)

\* Lines 58-63: the catch of handleScrape returns the error object
scrapeError(m) == settle([m EXCEPT !.req.errored = TRUE], "error", NoContent)

thrown(m, kind) == IF m.req.kind = "scrape" THEN scrapeError(m) ELSE catchError(m, kind)

\* Lines 171-178 and 238-241: the markdown of this invocation; stage 2 turns
\* aggressive cleaning off
stageOptions(r) ==
  [r.options EXCEPT !.aggressive_cleaning = IF r.fallbackStage = 2 THEN FALSE ELSE @]

\* Line 282: the URL and the metadata are put before the markdown
withHeader(md) == [md EXCEPT !.header = TRUE]

producedAlwaysFallsBack(m, short) ==
  LET r == m.req
      result == withHeader(convertToMarkdown(stageOptions(r)))
      m1 == [m EXCEPT !.req.lens = Append(@, short)]
  IN IF r.fallbackStage < 2
     THEN [m1 EXCEPT !.req.pc = "fbclose"]
     ELSE LET m2 == [m1 EXCEPT !.req.result = result, !.req.source = "pipeline"]
          IN IF r.bypassCache THEN settle(m2, "result", result)
             ELSE IF isRedisEnabled THEN [m2 EXCEPT !.req.pc = "set"]
             ELSE settle(stored(m2, "single"), "result", result)

\* Lines 243-313: markdown was produced, under the threshold (short) or not.
\* Under the threshold stages 0 and 1 close the page and go to the next
\* stage; otherwise the result is built, stored unless bypassCache, returned.
produced(m, short) ==
  LET r == m.req
      result == withHeader(convertToMarkdown(stageOptions(r)))
      m1 == [m EXCEPT !.req.lens = Append(@, short)]
  IN IF short /\ r.fallbackStage < 2
     THEN [m1 EXCEPT !.req.pc = "fbclose"]
     ELSE LET m2 == [m1 EXCEPT !.req.result = result, !.req.source = "pipeline"]
          IN IF r.bypassCache THEN settle(m2, "result", result)
             ELSE IF isRedisEnabled THEN [m2 EXCEPT !.req.pc = "set"]
             ELSE settle(stored(m2, "single"), "result", result)

\* Lines 36-56: handleScrape builds its response from the markdown; it passes
\* no cleaning option, so the document is cleaned and the converter keeps
\* the images
scraped(m) ==
  settle([m EXCEPT !.req.source = "pipeline"], "result", convertToMarkdown(JobOptions))

\* res.send (488, 533) or the error response (537-541)
send(m, st, content) ==
  [m EXCEPT !.req.rpc = "sent",
            !.req.response = [status |-> st, content |-> content]]

routeCheckedIgnoresEntry(m) ==
  convertUrlToMarkdown([m EXCEPT !.req.rpc = "conv", !.cache[ReqUrl] = NoEntry], 0, 0)

\* Lines 479-503: the route read the cache; a hit with content is sent, else
\* convertUrlToMarkdown is called
routeChecked(m) ==
  IF m.cache[ReqUrl] # NoEntry
  THEN send([m EXCEPT !.req.source = "cache"], "ok", m.cache[ReqUrl].content)
  ELSE convertUrlToMarkdown([m EXCEPT !.req.rpc = "conv"], 0, 0)

\* The options of a request: nocache and remove_images as the client sends
\* them, aggressive_cleaning left to its default (AGGRESSIVE_CLEANING=true)
RequestOptions == [nocache : BOOLEAN, aggressive_cleaning : {TRUE}, remove_images : BOOLEAN]

\* GET /convert (414-503) up to its first await
getConvert(options) ==
  LET nocache == options.nocache \/ disableAllCaching
      m0 == [Machine EXCEPT
               !.req = [NoRequest EXCEPT !.kind = "convert",
                                         !.options = [options EXCEPT !.nocache = nocache],
                                         !.asked = options.nocache,
                                         !.routeBypass = nocache]]
  IN IF nocache THEN convertUrlToMarkdown([m0 EXCEPT !.req.rpc = "conv"], 0, 0)
     ELSE IF isRedisEnabled THEN [m0 EXCEPT !.req.rpc = "get"]
     ELSE routeChecked(m0)

\* handleScrape (28-33) up to await createPage; its options have no cleaning
\* option, so cleanContent and convertToMarkdown run with their defaults
handleScrape ==
  [Machine EXCEPT !.req = [NoRequest EXCEPT !.kind = "scrape", !.rpc = "conv",
                                            !.pc = "create"]]

\* A request is received while no other single-URL request is in flight
Request(kind, options) ==
  /\ req.rpc \in {"idle", "sent"}
  /\ Apply(IF kind = "convert" THEN getConvert(options) ELSE handleScrape)

\* Line 471: await redisClient.get of the route returned
RouteCacheGet ==
  /\ req.rpc = "get"
  /\ Apply(routeChecked(Machine))

\* Line 124: await redisClient.get of convertUrlToMarkdown returned
ConvertCacheGet ==
  /\ req.pc = "get"
  /\ Apply(cacheChecked(Machine))

\* Lines 183-184 (33-34): await createPage returned a page and navigateToUrl
\* is called, or createPage threw
AcquirePage(outcome) ==
  /\ req.pc = "create"
  /\ Apply(IF outcome = "ok"
           THEN [Machine EXCEPT !.req.pages = Append(@, 0),
                                !.req.page = Len(req.pages) + 1,
                                !.req.navigations = @ + 1,
                                !.req.pc = "work"]
           ELSE thrown(Machine, outcome))

\* Lines 184-241 (34-43): the awaits on the page (navigation, wait for the
\* body, scroll, metadata, cleanContent, convertToMarkdown) returned, the
\* markdown under the threshold or not, or one of them threw
Convert(outcome) ==
  /\ req.pc = "work"
  /\ Apply(IF outcome \in {"short", "long"}
           THEN IF req.kind = "scrape" THEN scraped(Machine)
                ELSE produced(Machine, outcome = "short")
           ELSE thrown(Machine, outcome))

FallbackCloseResetsRetries ==
  /\ req.pc = "fbclose"
  /\ Apply(convertUrlToMarkdown(
             [Machine EXCEPT !.req.pages[req.page] = @ + 1],
             0, req.fallbackStage + 1))

FallbackWithoutClose ==
  /\ req.pc = "fbclose"
  /\ Apply(convertUrlToMarkdown(Machine, req.retryCount, req.fallbackStage + 1))

\* Lines 252-257 and 265-270: await closePage returned, page = null, and the
\* next stage is called
FallbackClose ==
  /\ req.pc = "fbclose"
  /\ Apply(convertUrlToMarkdown(
             [Machine EXCEPT !.req.pages[req.page] = @ + 1],
             req.retryCount, req.fallbackStage + 1))

\* Line 300: await redisClient.set returned
ConvertCacheSet ==
  /\ req.pc = "set"
  /\ Apply(settle(stored(Machine, "single"), "result", req.result))

\* Line 336: await redisClient.get of the emergency lookup returned
EmergencyCacheGet ==
  /\ req.pc = "eget"
  /\ Apply(emergencyChecked(Machine))

\* Lines 357-362 (64-68): await closePage of the innermost invocation returned
FinallyClose ==
  /\ req.pc = "close"
  /\ Apply([Machine EXCEPT !.req.pages[req.page] = @ + 1,
                           !.req.page = 0,
                           !.req.pc = "settled"])

\* Lines 357-362: await closePage of an invocation that retried returned
FinallyCloseRetried(p) ==
  /\ p \in req.closing
  /\ Apply([Machine EXCEPT !.req.pages[p] = @ + 1,
                           !.req.closing = @ \ {p}])

\* Lines 503-541: await convertUrlToMarkdown returned or threw in the route,
\* once every invocation has finished; the route stores the result unless
\* its bypassCache, and sends it.  The scrape route sends what handleScrape
\* returned.
RouteResume ==
  /\ req.rpc = "conv" /\ req.pc = "settled" /\ req.closing = {}
  /\ Apply(IF req.outcome = "error" THEN send(Machine, "error", NoContent)
           ELSE IF req.kind = "scrape" \/ req.routeBypass
           THEN send(Machine, "ok", req.result)
           ELSE IF isRedisEnabled THEN [Machine EXCEPT !.req.rpc = "set"]
           ELSE send(stored(Machine, "single"), "ok", req.result))

\* Line 520: await redisClient.set of the route returned
RouteCacheSet ==
  /\ req.rpc = "set"
  /\ Apply(send(stored(Machine, "single"), "ok", req.result))

\* The entry of a URL reaches its time to live (LRU ttl, Redis EX)
Expire(u) ==
  /\ cache[u] # NoEntry
  /\ cache' = [cache EXCEPT ![u] = NoEntry]
  /\ UNCHANGED <<req, jobSide>>

\* ------------------------- processInBatches as a function (1052-1085)
\* processInBatches is also called by fetchSitemapUrls (691-713) with a
\* processFn that returns arrays.  What processFn does with an item: it
\* returns an object, an array (of two elements), a falsy value, or throws.
ItemKinds == {"value", "array", "falsy", "throw"}

PoolLimits == {1, 2, 3}

\* What the promise of processFn(item) settles to
processFn(items, i) ==
  IF items[i] = "throw"
  THEN [state |-> "rejected", value |-> [item |-> i, tag |-> "error"]]
  ELSE [state |-> "fulfilled", value |-> [item |-> i, tag |-> items[i]]]

promiseOfRethrows(items, i) == processFn(items, i)

\* Lines 1058-1067: the promise of the wrapper around processFn(item); the
\* catch returns {error, item}
promiseOf(items, i) ==
  IF processFn(items, i).state = "rejected"
  THEN [state |-> "fulfilled", value |-> [item |-> i, tag |-> "error"]]
  ELSE processFn(items, i)

poolLaunchUnbounded(q, first) ==
  LET n == Len(q.items)
      pend2 == q.pending \cup (first..n)
  IN [q EXCEPT !.pending = pend2, !.next = n + 1, !.pc = "all", !.allOf = pend2]

\* Lines 1056-1080: the for loop from item `first` to its next await.  Items
\* are launched until the pending set reaches the limit (await Promise.race
\* over the pending promises) or the items are exhausted (await Promise.all).
poolLaunch(q, first) ==
  LET n == Len(q.items)
      m == Min(q.limit - Cardinality(q.pending), n - first + 1)
      pend2 == q.pending \cup (first..(first + m - 1))
  IN IF m >= 1 /\ Cardinality(pend2) >= q.limit
     THEN [q EXCEPT !.pending = pend2, !.next = first + m, !.pc = "race", !.won = 0]
     ELSE [q EXCEPT !.pending = pend2, !.next = n + 1, !.pc = "all", !.allOf = pend2]

\* results.flat(): an array result is replaced by its elements
RECURSIVE flat(_)
flat(rs) ==
  IF rs = <<>> THEN <<>>
  ELSE LET r == Head(rs)
       IN (IF r.tag = "array"
           THEN <<[item |-> r.item, tag |-> "elem1"], [item |-> r.item, tag |-> "elem2"]>>
           ELSE <<r>>) \o flat(Tail(rs))

\* .filter(Boolean)
filterBoolean(rs) == SelectSeq(rs, LAMBDA r : r.tag # "falsy")

\* [...pendingPromises]: a Set is iterated in insertion order
inOrder(S, n) == SelectSeq([i \in 1..n |-> i], LAMBDA i : i \in S)

\* What a step of a function followed on its own leaves alone
serverVars == <<cfg, envVars, redis, metrics, hookFailed, req, cache, jobVars, pc, batchIndex, poolVars,
                reportFile, hookVars, startedCount, histVars>>

\* processInBatches is called and runs to its first await
PoolCall ==
  /\ pool.pc = "start"
  /\ pool' = poolLaunch(pool, 1)
  /\ UNCHANGED <<serverVars, ladder, doc>>

\* The promise of item i settles; its finally (1064-1066) has removed it from
\* pendingPromises
PoolSettle(i) ==
  /\ pool.pc \in {"race", "all"} /\ i \in pool.pending
  /\ pool' = [pool EXCEPT !.pending = @ \ {i},
                          !.won = IF pool.pc = "race" /\ @ = 0 THEN i ELSE @]
  /\ UNCHANGED <<serverVars, ladder, doc>>

\* Lines 1074-1076: await Promise.race resumes with the first promise that
\* settled; its value is pushed and the loop goes on
PoolResumeRace ==
  /\ pool.pc = "race" /\ pool.won # 0
  /\ LET o == promiseOf(pool.items, pool.won)
     IN pool' = IF o.state = "rejected" THEN [pool EXCEPT !.pc = "thrown"]
                ELSE poolLaunch([pool EXCEPT !.results = Append(@, o.value)], pool.next)
  /\ UNCHANGED <<serverVars, ladder, doc>>

\* Lines 1080-1084: await Promise.all resumes once every promise passed to it
\* has settled; the values are pushed and the flattened array is returned
PoolResumeAll ==
  /\ pool.pc = "all" /\ pool.allOf \cap pool.pending = {}
  /\ LET order == inOrder(pool.allOf, Len(pool.items))
         remaining == [k \in DOMAIN order |-> promiseOf(pool.items, order[k]).value]
         all == pool.results \o remaining
     IN pool' = IF \E i \in pool.allOf : promiseOf(pool.items, i).state = "rejected"
                THEN [pool EXCEPT !.pc = "thrown"]
                ELSE [pool EXCEPT !.results = all, !.returned = filterBoolean(flat(all)),
                                  !.pc = "returned"]
  /\ UNCHANGED <<serverVars, ladder, doc>>

\* --------------------------- initRedis followed on its own (267-463, 500-506)
RedisModes == {"unset", "none", "NONE", "internal", "external", "bogus"}

\* const redisMode = process.env.USE_REDIS || 'none'
redisMode(r) == IF r.USE_REDIS = "unset" THEN "none" ELSE r.USE_REDIS

modeIsNone(r) == redisMode(r) \in {"none", "NONE"}

\* isRedisEnabled (500-506) on the variables of the module
isRedisEnabledAfter(r) == ~modeIsNone(r) /\ r.useRedis /\ r.redisClient

\* Every return of initRedis and its last lines (459-462)
initialized(r) == [r EXCEPT !.redisInitialized = TRUE, !.pc = "done"]

\* The fall back to the LRU cache: useRedis = false, redisClient = null
fallBack(r) == [r EXCEPT !.useRedis = FALSE, !.redisClient = FALSE]

\* resolve(true) and reject(err) of the raced promise: the first one settles it
resolveRace(r) == [r EXCEPT !.race = IF @ = "pending" THEN "true" ELSE @]

rejectRace(r) == [r EXCEPT !.race = IF @ = "pending" THEN "rejected" ELSE @, !.failure = TRUE]

\* Lines 267-378: initRedis up to await Promise.race.  require('ioredis')
\* loads or throws, new Redis(...) returns a client or throws.
initRedisCalled(r, loads, constructs) ==
  IF modeIsNone(r)
  THEN initialized([fallBack(r) EXCEPT
         !.DISABLE_ALL_CACHING = IF @ # "false" THEN "true" ELSE @])
  ELSE IF ~loads THEN initialized([fallBack(r) EXCEPT !.failure = TRUE])
  ELSE IF redisMode(r) = "external" /\ ~r.EXTERNAL_REDIS_URL
  THEN initialized([fallBack(r) EXCEPT !.failure = TRUE])
  ELSE IF redisMode(r) \notin {"internal", "external"} THEN initialized(fallBack(r))
  ELSE IF ~constructs THEN initialized([fallBack(r) EXCEPT !.failure = TRUE])
  ELSE [r EXCEPT !.redisClient = TRUE, !.pc = "race", !.race = "pending",
                 !.timer = TRUE, !.onConnect = TRUE, !.onError = TRUE]

\* Lines 382-405: the catch of the test (useRedis = false, reject)
probeFailed(r) == rejectRace([r EXCEPT !.useRedis = FALSE, !.probe = "done"])

\* Lines 385-386: set of the test returned; the then calls redisClient.get on
\* the variable of the module, which throws when it is null
probeSetReturned(r, ok) ==
  IF ok /\ r.redisClient THEN [r EXCEPT !.probe = "get"] ELSE probeFailed(r)

probeGotAnyValue(r, v) ==
  IF v # "error"
  THEN resolveRace([r EXCEPT !.useRedis = TRUE, !.probe = "done", !.value = v])
  ELSE probeFailed([r EXCEPT !.value = v])

\* Lines 387-398: get of the test returned this value or rejected
probeGot(r, v) ==
  IF v = "working"
  THEN resolveRace([r EXCEPT !.useRedis = TRUE, !.probe = "done", !.value = v])
  ELSE probeFailed([r EXCEPT !.value = v])

\* Lines 418-443: the catch on the race and the lines after the await
raceResumed(r) ==
  initialized(IF r.race = "true" THEN r
              ELSE [fallBack(r) EXCEPT !.ended = TRUE, !.onConnect = FALSE,
                                       !.onError = FALSE, !.timer = FALSE])

\* What a step of initRedis followed on its own leaves alone
besideRedis == <<cfg, envVars, metrics, hookFailed, req, cache, jobVars, pc, batchIndex,
                 poolVars, reportFile, hookVars, startedCount, histVars, pool, ladder, doc>>

InitRedisCall(loads, constructs) ==
  /\ redis.pc = "start"
  /\ redis' = initRedisCalled(redis, loads, constructs)
  /\ UNCHANGED besideRedis

\* Lines 380-383: the client emits connect; the timeout is cleared and the
\* test is started
ConnectEvent ==
  /\ redis.onConnect /\ ~redis.ended
  /\ redis' = [redis EXCEPT !.onConnect = FALSE, !.timer = FALSE, !.connected = TRUE,
                             !.probe = "set"]
  /\ UNCHANGED besideRedis

\* A command of a client that was disconnected or stopped reconnecting is
\* rejected
ProbeSet(ok) ==
  /\ redis.probe = "set" /\ (redis.ended => ~ok)
  /\ redis' = probeSetReturned(redis, ok)
  /\ UNCHANGED besideRedis

ProbeGet(v) ==
  /\ redis.probe = "get" /\ (redis.ended => v = "error")
  /\ redis' = probeGot(redis, v)
  /\ UNCHANGED besideRedis

\* Lines 406-411: the client emits error for the first time
ErrorEvent ==
  /\ redis.onError /\ ~redis.ended
  /\ redis' = rejectRace([redis EXCEPT !.onError = FALSE, !.timer = FALSE,
                                        !.useRedis = FALSE])
  /\ UNCHANGED besideRedis

\* Lines 413-417: ten seconds passed without connect or error
ConnectionTimeout ==
  /\ redis.timer
  /\ redis' = rejectRace([redis EXCEPT !.timer = FALSE])
  /\ UNCHANGED besideRedis

\* Lines 327-334 (352-359): retryStrategy is called a fourth time and stops
\* the reconnecting
RetryStrategyGivesUp ==
  /\ redis.redisClient /\ ~redis.ended /\ redis.pc \in {"race", "done"}
  /\ redis' = [redis EXCEPT !.useRedis = FALSE, !.ended = TRUE, !.failure = TRUE]
  /\ UNCHANGED besideRedis

\* Lines 418-462: await Promise.race returned
RaceResume ==
  /\ redis.pc = "race" /\ redis.race \in {"true", "rejected"}
  /\ redis' = raceResumed(redis)
  /\ UNCHANGED besideRedis

\* ------------- the stages of convertUrlToMarkdown (src/docker-compose.yml 152-276)
DEFAULT_MIN_CONTENT_LENGTH == 500

\* a || b || c of JavaScript on numbers: undefined, NaN and 0 are falsy
truthy(x) == x.given /\ x.value # 0

\* Lines 161-162: options.min_content_length || parseInt(MIN_CONTENT_LENGTH) || 500
minContentLength(l) ==
  IF truthy(l.min_content_length) THEN l.min_content_length.value
  ELSE IF truthy(l.MIN_CONTENT_LENGTH) THEN l.MIN_CONTENT_LENGTH.value
  ELSE DEFAULT_MIN_CONTENT_LENGTH

\* Lines 153-155: the option if defined, else AGGRESSIVE_CLEANING === 'true'
\* if set, else true
aggressiveCleaning(l) ==
  IF l.aggressive_cleaning # "undefined" THEN l.aggressive_cleaning = "true"
  ELSE IF l.AGGRESSIVE_CLEANING # "unset" THEN l.AGGRESSIVE_CLEANING = "true"
  ELSE TRUE

\* Lines 152-178: conversionOptions.aggressive_cleaning of this stage
stageCleaning(l) ==
  stageOptions([options |-> [aggressive_cleaning |-> aggressiveCleaning(l)],
                fallbackStage |-> l.fallbackStage]).aggressive_cleaning

\* The lengths a text or a markdown can have, and the thresholds that are set
Lengths == {0, 1, 499, 500}

Thresholds == {NotGiven, Given(0), Given(1)}

\* Lines 193-225: evaluateContentRichness returned textLength; the page is
\* scrolled when the text is under the threshold or the stage is 1
LadderProbe(textLength) ==
  /\ ladder.pc = "probe"
  /\ ladder' = IF textLength < minContentLength(ladder) \/ ladder.fallbackStage = 1
               THEN [ladder EXCEPT !.pc = "scroll"]
               ELSE [ladder EXCEPT !.pc = "convert", !.scrolled = Append(@, FALSE)]
  /\ UNCHANGED <<serverVars, pool, doc>>

\* Lines 201-222: the scroll and the wait returned, or threw and the error
\* was logged
LadderScroll ==
  /\ ladder.pc = "scroll"
  /\ ladder' = [ladder EXCEPT !.pc = "convert", !.scrolled = Append(@, TRUE)]
  /\ UNCHANGED <<serverVars, pool, doc>>

\* Lines 228-276: cleanContent ran with the options of the stage and
\* convertToMarkdown returned markdown of this length; under the threshold
\* stages 0 and 1 go to the next stage (the page is closed, a new one created)
LadderConvert(length) ==
  /\ ladder.pc = "convert"
  /\ ladder' =
       LET l == [ladder EXCEPT !.cleaning = Append(@, stageCleaning(ladder))]
       IN IF length < minContentLength(ladder) /\ ladder.fallbackStage < 2
          THEN [l EXCEPT !.fallbackStage = @ + 1, !.pc = "probe"]
          ELSE [l EXCEPT !.pc = "done"]
  /\ UNCHANGED <<serverVars, pool, doc>>

\* ------------------------- convertToMarkdown (src/src/utils/converter.js 11-159)
\* A text is a sequence of characters: a letter, the pipe, a line feed, and
\* in HTML a character reference to the pipe (&#124;)
HtmlChars == {"x", "|", "nl", "ent"}

MarkdownChars == {"x", "|", "nl"}

MaxHtmlLen == 4

MaxMarkdownLen == 3

RECURSIVE splitLines(_)
splitLines(s) ==
  IF \A k \in DOMAIN s : s[k] # "nl" THEN <<s>>
  ELSE LET k == CHOOSE j \in DOMAIN s : s[j] = "nl" /\ \A h \in 1..(j - 1) : s[h] # "nl"
       IN <<SubSeq(s, 1, k - 1)>> \o splitLines(SubSeq(s, k + 1, Len(s)))

RECURSIVE joinLines(_)
joinLines(ls) ==
  IF Len(ls) = 1 THEN ls[1] ELSE ls[1] \o <<"nl">> \o joinLines(Tail(ls))

\* Lines 16 and 136: replace(/^.*\|.*$/gm, ''): every line that holds a pipe
\* becomes the empty line
removePipeLines(s) ==
  LET ls == splitLines(s)
  IN joinLines([k \in DOMAIN ls |-> IF "|" \in Range(ls[k]) THEN <<>> ELSE ls[k]])

\* Line 19: replace(/\|[\s\S]*?\|/g, ''): from a pipe to the next pipe
RECURSIVE removeBetweenPipes(_)
removeBetweenPipes(s) ==
  IF \E i, j \in DOMAIN s : i < j /\ s[i] = "|" /\ s[j] = "|"
  THEN LET i == CHOOSE k \in DOMAIN s : s[k] = "|" /\ \A h \in 1..(k - 1) : s[h] # "|"
           j == CHOOSE k \in (i + 1)..Len(s) :
                  s[k] = "|" /\ \A h \in (i + 1)..(k - 1) : s[h] # "|"
       IN SubSeq(s, 1, i - 1) \o removeBetweenPipes(SubSeq(s, j + 1, Len(s)))
  ELSE s

\* Lines 14-23: the HTML that is handed to turndown and, on an error, to JSDOM
\* (the unescaping of line 22 touches none of the characters of the model)
preCleaned(html) == removeBetweenPipes(removePipeLines(html))

\* Line 126: replace(/\n{3,}/g, '\n\n')
RECURSIVE collapseNewlines(_)
collapseNewlines(s) ==
  IF s = <<>> THEN <<>>
  ELSE IF Len(s) >= 3 /\ s[1] = "nl" /\ s[2] = "nl" /\ s[3] = "nl"
  THEN collapseNewlines(Tail(s))
  ELSE <<s[1]>> \o collapseNewlines(Tail(s))

\* Lines 123-138: the post-processing of the markdown turndown returned (the
\* rules for code fences and escaped links touch none of the characters of
\* the model)
postProcess(md) == removePipeLines(collapseNewlines(md))

\* body.textContent of the parsed HTML: the character references are decoded
decoded(s) == [k \in DOMAIN s |-> IF s[k] = "ent" THEN "|" ELSE s[k]]

\* Line 151: replace(/\s+/g, ' ').trim(); "sp" is the blank
RECURSIVE collapseSpace(_)
collapseSpace(s) ==
  IF s = <<>> THEN <<>>
  ELSE IF s[1] = "nl"
  THEN IF Len(s) >= 2 /\ s[2] = "nl" THEN collapseSpace(Tail(s))
       ELSE <<"sp">> \o collapseSpace(Tail(s))
  ELSE <<s[1]>> \o collapseSpace(Tail(s))

trim(s) ==
  LET keep == {k \in DOMAIN s : s[k] # "sp"}
  IN IF keep = {} THEN <<>>
     ELSE SubSeq(s, CHOOSE k \in keep : \A h \in keep : k <= h,
                    CHOOSE k \in keep : \A h \in keep : k >= h)

\* Lines 143-157: the text of the document, or the fixed sentence when JSDOM
\* throws as well
textFallback(html, jsdomThrows) ==
  IF jsdomThrows THEN <<"x", "sp", "x">>
  ELSE trim(collapseSpace(decoded(preCleaned(html))))

\* Lines 25-138: turndown returned markdown md; it is post-processed and
\* returned
Transform(md) ==
  /\ doc.pc = "call"
  /\ doc' = [doc EXCEPT !.pc = "returned", !.path = "transform", !.out = postProcess(md)]
  /\ UNCHANGED <<serverVars, pool, ladder>>

\* Lines 139-158: turndown threw; the text of the document is returned
PlainTextFallback(jsdomThrows) ==
  /\ doc.pc = "call"
  /\ doc' = [doc EXCEPT !.pc = "returned", !.path = "fallback",
                        !.out = textFallback(doc.html, jsdomThrows)]
  /\ UNCHANGED <<serverVars, pool, ladder>>

Items == 1..MaxBatchSize

Next ==
  \/ \E source \in {"sitemap", "urls"} : processJob(source)
  \/ FetchDone
  \/ FetchFail
  \/ ResumeRace
  \/ BatchDone
  \/ AfterSave
  \/ AfterProgress
  \/ AfterDelay
  \/ AfterFinalSave
  \/ AfterFinalHook
  \/ AfterFailSave
  \/ \E i \in Items : SkipReturn(i)
  \/ \E i \in Items : CacheLookup(i)
  \/ \E i \in Items : CreatePage(i)
  \/ \E i \in Items : \E kind \in {"transient", "permanent"} : CreatePageFail(i, kind)
  \/ \E i \in Items : \E kind \in {"ok", "transient", "permanent"} : Pipeline(i, kind)
  \/ \E i \in Items : SetCache(i)
  \/ \E i \in Items : RetryUrl(i)
  \/ \E i \in Items : ClosePage(i)
  \/ \E i \in Items : CloseRetriedPage(i)
  \/ \E i \in Items : ProcessFnReturn(i)
  \/ cancelJob

Spec == Init /\ [][Next]_vars

\* ------------------------------------------------------ the server at work
\* The server after initializeServices (78-101), with one job of one URL
\* created, single-URL requests for the same URL arriving one after the other,
\* and the cache entries expiring.
\* The environments the server is started with: without a Redis and any
\* value of the master switch, or with a Redis and the master switch unset
ServerEnvs == {e \in Envs : e.USE_REDIS = "internal" => e.DISABLE_ALL_CACHING = "unset"}

ConvertCfg ==
  [urls |-> <<ReqUrl>>, batchSize |-> 1, maxConcurrent |-> 1, retryCount |-> 1,
   nocache |-> FALSE, webhook |-> "none"]

ConvertInit ==
  /\ cfg = ConvertCfg
  /\ status = "pending"
  /\ total = 0 /\ processed = 0 /\ success = 0 /\ failed = 0
  /\ currentBatch = 0
  /\ batches = <<>>
  /\ results = <<>>
  /\ processedUrlsMap = <<>>
  /\ error = ""
  /\ pc = "created"
  /\ batchIndex = 0
  /\ nextItem = 1
  /\ pendingPromises = {}
  /\ raceWon = FALSE
  /\ workers = <<>>
  /\ envConfigured \in ServerEnvs
  /\ \E connects \in BOOLEAN :
       /\ env = initRedis(envConfigured, connects).env
       /\ useRedis = initRedis(envConfigured, connects).useRedis
  /\ cache = [u \in URLS |-> NoEntry]
  /\ req = NoRequest
  /\ hookFailed = {}
  /\ pool = NoPool /\ ladder = NoLadder /\ doc = NoDoc /\ redis = NoRedis
  /\ metrics = NoMetrics
  /\ reportFile = NoSummary
  /\ progressSent = 0 /\ progressPayload = NoSummary
  /\ finalSent = 0 /\ finalPayload = NoSummary
  /\ startedCount = [u \in URLS |-> 0]
  /\ cancelledAt = "none"
  /\ cancelCap = -1

ConvertNext ==
  \/ \E kind \in {"convert", "scrape"} : \E options \in RequestOptions : Request(kind, options)
  \/ RouteCacheGet
  \/ ConvertCacheGet
  \/ \E outcome \in {"ok", "transient", "permanent"} : AcquirePage(outcome)
  \/ \E outcome \in {"short", "long", "transient", "permanent"} : Convert(outcome)
  \/ FallbackClose
  \/ ConvertCacheSet
  \/ EmergencyCacheGet
  \/ FinallyClose
  \/ \E p \in 1..MaxPages : FinallyCloseRetried(p)
  \/ RouteResume
  \/ RouteCacheSet
  \/ \E u \in URLS : Expire(u)
  \/ processJob("urls")
  \/ CacheLookup(1)
  \/ CreatePage(1)
  \/ \E kind \in {"transient", "permanent"} : CreatePageFail(1, kind)
  \/ \E kind \in {"ok", "transient", "permanent"} : Pipeline(1, kind)
  \/ SetCache(1)
  \/ RetryUrl(1)
  \/ ClosePage(1)
  \/ CloseRetriedPage(1)
  \/ ProcessFnReturn(1)

ConvertSpec == ConvertInit /\ [][ConvertNext]_vars

\* ------------------------------------------------- a job whose webhooks fail
\* A job with a webhook configured, every POST of which can fail
WebhookInit == Init /\ cfg.webhook # "none" /\ ~cfg.nocache

WebhookNext ==
  \/ Next
  \/ ProgressWebhookFailed
  \/ FinalWebhookFailed

WebhookSpec == WebhookInit /\ [][WebhookNext]_vars

\* ------------------------------------------- a job whose writes and POSTs fail
\* await fs.writeFile of the pending saveJobState failed: the catch of
\* saveJobState logs the error (1125-1127) and the driver goes on as after
\* a write; what the report file holds is not the summary that was saved
ReportWriteFailed ==
  /\ pc \in {"save", "finalsave", "failsave"}
  /\ reportFile.status # "unwritten"
  /\ reportFile' = [reportFile EXCEPT !.status = "unwritten"]
  /\ UNCHANGED <<cfg, envVars, unitVars, metrics, hookFailed, req, jobVars, pc, batchIndex,
                 poolVars, cache, hookVars, startedCount, histVars>>

\* The job has a webhook with progress updates, so that every POST the
\* driver can make is made
LiveInit == Init /\ cfg.webhook = "progress" /\ ~cfg.nocache

LiveNext ==
  \/ WebhookNext
  \/ ReportWriteFailed

\* Every await of the driver and of the workers returns: the fetch of the
\* source, the operations of processUrl, the writes, the POSTs and the
\* delays end.  Nothing is assumed of cancelJob, which a client may call
\* or not.
LiveSpec == LiveInit /\ [][LiveNext]_vars /\ WF_vars(LiveNext /\ ~cancelJob)

\* --------------------------------------------- functions followed on their own
\* The server with no job started and no request in flight
ServerIdle ==
  /\ cfg = ConvertCfg
  /\ status = "pending"
  /\ total = 0 /\ processed = 0 /\ success = 0 /\ failed = 0
  /\ currentBatch = 0
  /\ batches = <<>>
  /\ results = <<>>
  /\ processedUrlsMap = <<>>
  /\ error = ""
  /\ pc = "created"
  /\ batchIndex = 0
  /\ nextItem = 1
  /\ pendingPromises = {}
  /\ raceWon = FALSE
  /\ workers = <<>>
  /\ envConfigured = DefaultEnv
  /\ env = initRedis(envConfigured, FALSE).env
  /\ useRedis = initRedis(envConfigured, FALSE).useRedis
  /\ cache = [u \in URLS |-> NoEntry]
  /\ req = NoRequest
  /\ hookFailed = {}
  /\ reportFile = NoSummary
  /\ progressSent = 0 /\ progressPayload = NoSummary
  /\ finalSent = 0 /\ finalPayload = NoSummary
  /\ startedCount = [u \in URLS |-> 0]
  /\ cancelledAt = "none"
  /\ cancelCap = -1
  /\ metrics = NoMetrics

\* processInBatches called with any list of up to MaxItems items and any limit
MaxItems == 3

PoolInit ==
  /\ ServerIdle
  /\ pool \in {[NoPool EXCEPT !.items = items, !.limit = limit, !.pc = "start"] :
                 items \in SeqsUpTo(ItemKinds, MaxItems), limit \in PoolLimits}
  /\ ladder = NoLadder /\ doc = NoDoc /\ redis = NoRedis

PoolNext ==
  \/ PoolCall
  \/ \E i \in 1..MaxItems : PoolSettle(i)
  \/ PoolResumeRace
  \/ PoolResumeAll

PoolSpec == PoolInit /\ [][PoolNext]_vars

\* convertUrlToMarkdown called with any setting of the threshold and of the
\* cleaning, for a page of any length, no await throwing
LadderInit ==
  /\ ServerIdle
  /\ ladder \in {[NoLadder EXCEPT !.min_content_length = o, !.MIN_CONTENT_LENGTH = e,
                                   !.aggressive_cleaning = a, !.AGGRESSIVE_CLEANING = ae,
                                   !.pc = "probe"] :
                   o \in Thresholds, e \in Thresholds,
                   a \in {"undefined", "true", "false"}, ae \in {"unset", "true", "false"}}
  /\ pool = NoPool /\ doc = NoDoc /\ redis = NoRedis

LadderNext ==
  \/ \E textLength \in Lengths : LadderProbe(textLength)
  \/ LadderScroll
  \/ \E length \in Lengths : LadderConvert(length)

LadderSpec == LadderInit /\ [][LadderNext]_vars

\* initRedis called at the start of the server, under any setting of
\* USE_REDIS, EXTERNAL_REDIS_URL and DISABLE_ALL_CACHING
RedisInit ==
  /\ ServerIdle
  /\ redis \in {[NoRedis EXCEPT !.USE_REDIS = m, !.EXTERNAL_REDIS_URL = u,
                                 !.DISABLE_ALL_CACHING = d, !.pc = "start"] :
                  m \in RedisModes, u \in BOOLEAN, d \in {"unset", "true", "false"}}
  /\ pool = NoPool /\ ladder = NoLadder /\ doc = NoDoc

RedisNext ==
  \/ \E loads \in BOOLEAN : \E constructs \in BOOLEAN : InitRedisCall(loads, constructs)
  \/ ConnectEvent
  \/ \E ok \in BOOLEAN : ProbeSet(ok)
  \/ \E v \in {"working", "other", "error"} : ProbeGet(v)
  \/ ErrorEvent
  \/ ConnectionTimeout
  \/ RetryStrategyGivesUp
  \/ RaceResume

RedisSpec == RedisInit /\ [][RedisNext]_vars

\* convertToMarkdown called with any HTML of up to MaxHtmlLen characters;
\* turndown (not part of the sources) returns any markdown or throws
MarkdownInit ==
  /\ ServerIdle
  /\ doc \in {[NoDoc EXCEPT !.html = html, !.pc = "call"] :
                html \in SeqsUpTo(HtmlChars, MaxHtmlLen)}
  /\ pool = NoPool /\ ladder = NoLadder /\ redis = NoRedis

MarkdownNext ==
  \/ \E md \in SeqsUpTo(MarkdownChars, MaxMarkdownLen) : Transform(md)
  \/ \E jsdomThrows \in BOOLEAN : PlainTextFallback(jsdomThrows)

MarkdownSpec == MarkdownInit /\ [][MarkdownNext]_vars

\* Pages created and not yet closed by the workers of the job
PagesOpen ==
  Cardinality({i \in pendingPromises : workers[i].page})
    + SumOver([i \in pendingPromises |-> workers[i].closing], pendingPromises)

TypeOK ==
  /\ status \in {"pending", "processing", "completed", "failed", "cancelled"}
  /\ pc \in {"created", "fetch", "race", "all", "save", "progress", "delay",
             "finalsave", "finalhook", "failsave", "done"}
  /\ pendingPromises \subseteq DOMAIN workers
  /\ Cardinality(pendingPromises) <= cfg.maxConcurrent

\* ------------------------------------------------------------------ claims
Terminal == {"completed", "failed", "cancelled"}

Closed(s) == s.total = s.processed /\ s.processed = s.successful + s.failed

UrlSet == Range(cfg.urls)

InLoop == {"race", "all", "save", "progress", "delay"}

\* C2 as stated: after cancelJob ran on a job that was processing (its driver
\* in the loop over the batches), the status is cancelled in every later state.
CancelledStaysCancelled ==
  cancelledAt \in InLoop => status = "cancelled"

\* C3 as stated: no final webhook is ever sent for a job that was cancelled
\* while processing, whichever point of the loop the cancelJob call came at.
NoFinalWebhookAfterCancel ==
  cancelledAt \in InLoop => finalSent = 0

\* C4 as stated: when cancelJob ran after k batches had completed and before
\* the next batch started, processed never exceeds k * batchSize afterwards.
ProcessedWithinCancelCap ==
  cancelCap # -1 => processed <= cancelCap

\* C5 as stated: once the status is completed, failed or cancelled, no step
\* changes it to another status.
TerminalStatusIsFinal ==
  [][(status \in Terminal) => (status' = status)]_vars

\* C6 as stated: within one job processUrl is started at most once for any
\* URL (retries of that start not counted).
ProcessUrlStartedAtMostOnce ==
  \A u \in URLS : startedCount[u] <= 1

\* C7: when the status is completed, results holds exactly one result for
\* every URL of the source list and none for another URL, and the results
\* array and the result map hold the same entries.
CompletedResultsExact ==
  status = "completed" =>
    /\ {results[i].url : i \in DOMAIN results} = UrlSet
    /\ \A u \in UrlSet : Cardinality({i \in DOMAIN results : results[i].url = u}) = 1
    /\ Len(results) = Len(processedUrlsMap)
    /\ Range(results) = Range(processedUrlsMap)

\* C7 witness: a completed job whose source list repeated a URL and whose two
\* distinct URLs ended differently
CompletedResultsWitness ==
  /\ status = "completed" /\ cancelledAt = "none"
  /\ Len(cfg.urls) = 3 /\ Len(results) = 2
  /\ \E i, j \in DOMAIN results : results[i].success /\ ~results[j].success

\* C8: in every state, what getJobStatus and getJobResults return, the
\* persisted report and the last progress and final webhook payloads all have
\* processed = successful + failed.
ProcessedIsSuccessPlusFailed ==
  \A s \in {getJobStatus, getJobResults, reportFile, progressPayload, finalPayload} :
    s.processed = s.successful + s.failed

\* C8 witness: progress and final webhooks were sent for a job with both a
\* successful and a failed URL
ProcessedSumWitness ==
  /\ progressSent >= 2 /\ finalSent = 1
  /\ finalPayload.successful >= 1 /\ finalPayload.failed >= 1
  /\ progressPayload.processed >= 2

\* C9 as stated: when the first batch starts, job.total is the number of
\* distinct URLs of the source.
TotalIsDistinctCount ==
  [][(batchIndex = 0 /\ batchIndex' = 1) => (total' = Cardinality(UrlSet))]_vars

\* C10 as stated: the pages acquired and not yet released by the workers of
\* the job never exceed maxConcurrent.
PagesWithinMaxConcurrent ==
  PagesOpen <= cfg.maxConcurrent

\* The outermost invocation of the single-URL conversion has returned or
\* thrown: the innermost one has, and every finally before it is done
Returned == req.pc = "settled" /\ req.closing = {}

\* C11: closePage resolves at most once for a page; once the outermost
\* invocation of convertUrlToMarkdown or handleScrape has returned or thrown,
\* closePage has resolved for every page the request acquired; and when
\* processUrl has returned to processFn, retries included, the worker holds
\* no open page.
PagesReleasedOnEveryExit ==
  /\ \A p \in DOMAIN req.pages : req.pages[p] <= 1
  /\ Returned => \A p \in DOMAIN req.pages : req.pages[p] = 1
  /\ \A i \in DOMAIN workers :
       (workers[i].pc = "ret" /\ workers[i].closing = 0) => ~workers[i].page

\* C11 witness: a conversion that went through a retry and a fallback stage
\* has returned, and processUrl has returned after a retry
PagesReleasedWitness ==
  /\ Returned /\ req.kind = "convert" /\ req.errored
  /\ req.fallbackStage >= 1 /\ Len(req.pages) >= 3
  /\ 1 \in DOMAIN workers /\ workers[1].pc = "ret" /\ workers[1].retry = 1

\* C12: whenever the driver goes from batch k to batch k + 1 (the only step
\* that starts URLs of batch k + 1), no promise of batch k is pending, every
\* URL of batch k has finished, and results holds the outcome of every URL of
\* batch k.
BatchesStrictlySerial ==
  [][(batchIndex >= 1 /\ batchIndex' # batchIndex) =>
       /\ batchIndex' = batchIndex + 1
       /\ pendingPromises = {}
       /\ \A i \in DOMAIN workers : workers[i].pc = "done"
       /\ \A u \in Range(batches[batchIndex]) : MapHas(results, u)]_vars

\* C12 witness: the second batch is running after a first batch of two URLs
\* that were processed in parallel
BatchesSerialWitness ==
  /\ batchIndex = 2 /\ pendingPromises # {}
  /\ cfg.batchSize = 2 /\ cfg.maxConcurrent = 2 /\ Len(results) = 2

\* ceil(n / b)
CeilDiv(n, b) == (n + b - 1) \div b

\* C13 as stated: a job of n >= 1 URLs with batch size b and progress updates
\* that was never cancelled ends with ceil(n / b) batches formed, ceil(n / b)
\* progress webhooks and one final webhook sent, and a final summary with
\* total = processed = successful + failed = n.
BatchAndWebhookCounts ==
  (pc = "done" /\ status = "completed" /\ cancelledAt = "none" /\ cfg.webhook = "progress") =>
    LET n == Len(cfg.urls)
    IN /\ Len(batches) = CeilDiv(n, cfg.batchSize)
       /\ progressSent = CeilDiv(n, cfg.batchSize)
       /\ finalSent = 1
       /\ finalPayload.total = n /\ finalPayload.processed = n
       /\ finalPayload.successful + finalPayload.failed = n

\* C14 as stated: a cancelJob call on a job on which cancelJob already ran
\* (while its driver was in the loop over the batches) leaves the status,
\* the counts and the results of the job as they were just before the call.
RepeatedCancelIsNoOp ==
  [][(cancelledAt \in InLoop /\ cancelJob) =>
       UNCHANGED <<status, total, processed, success, failed, results>>]_vars

\* The step in which GET /convert reads the cache: the request itself when
\* the LRU is read, the return of redisClient.get otherwise
RouteLookupStep ==
  \/ ~isRedisEnabled /\ req.rpc \in {"idle", "sent"} /\ req' # req /\ req'.kind = "convert"
  \/ req.rpc = "get" /\ req'.rpc # "get"

\* C15: when a GET /convert with noCache false reads the cache while caching
\* is enabled and the cache holds an entry for the URL, the response is the
\* content of that entry and the request has acquired no page and made no
\* navigation; and when a request that stores its result responds, the entry
\* holds the content of its response.
CachedArtifactReturned ==
  [][/\ (RouteLookupStep /\ ~req'.asked /\ ~disableAllCaching /\ cache[ReqUrl] # NoEntry) =>
          /\ req'.rpc = "sent"
          /\ req'.response = [status |-> "ok", content |-> cache[ReqUrl].content]
          /\ req'.pages = <<>> /\ req'.navigations = 0
     /\ (req.rpc \in {"conv", "set"} /\ req'.rpc = "sent" /\ req'.kind = "convert"
           /\ req'.response.status = "ok" /\ ~req'.routeBypass) =>
          cache'[ReqUrl] = [content |-> req'.response.content, by |-> "single"]]_vars

\* C15 witness: a request was answered from the entry an earlier single-URL
\* request stored
CachedArtifactWitness ==
  /\ req.rpc = "sent" /\ req.source = "cache" /\ ~req.asked
  /\ req.response = [status |-> "ok", content |-> cache[ReqUrl].content]
  /\ cache[ReqUrl].by = "single" /\ req.pages = <<>>

\* C16 as stated: every step that writes a cache entry is made with the
\* master switch off, for a conversion that ran to a result in a request or
\* a job with noCache false: a single-URL request whose conversion produced
\* the result, or processUrl storing its successful result.
CacheWrittenOnlyOnSuccess ==
  [][\A u \in URLS : (cache'[u] # cache[u] /\ cache'[u] # NoEntry) =>
        /\ ~disableAllCaching
        /\ \/ /\ cache'[u].by = "single" /\ u = ReqUrl
              /\ req'.source = "pipeline" /\ ~req'.asked
           \/ /\ cache'[u].by = "processUrl" /\ ~cfg.nocache
              /\ \E i \in DOMAIN workers :
                    /\ workers[i].url = u /\ workers[i].pc = "setcache"
                    /\ workers[i].res.success]_vars

\* C17 as stated: in a server started with USE_REDIS=none and
\* DISABLE_ALL_CACHING unset the LRU is used: when a GET /convert with
\* noCache false has converted the URL and responds, the cache holds an entry
\* for the URL.
LruUsedWithoutRedis ==
  [][(/\ envConfigured = [USE_REDIS |-> "none", DISABLE_ALL_CACHING |-> "unset"]
      /\ req.rpc # "sent" /\ req'.rpc = "sent" /\ req'.kind = "convert"
      /\ req'.source = "pipeline" /\ req'.response.status = "ok" /\ ~req'.asked) =>
        cache'[ReqUrl] # NoEntry]_vars

\* C18 as stated: the content of the cache entry of a URL, which is what a
\* request served from the entry returns, is the markdown that any other
\* successful conversion of the URL returned, whichever path wrote the entry
\* and whatever aggressive_cleaning and remove_images each conversion used.
CacheInterchangeable ==
  (/\ req.kind = "convert" /\ req.source = "pipeline" /\ req.outcome = "result"
   /\ req.pc \in {"close", "settled"}
   /\ cache[ReqUrl] # NoEntry) =>
     cache[ReqUrl].content = req.result

\* The last markdown a convert request in flight produced reached
\* min_content_length
LongProduced ==
  /\ req.kind = "convert" /\ req.rpc # "sent"
  /\ req.lens # <<>> /\ ~req.lens[Len(req.lens)]

\* C19: once stage N of a convert request produced markdown of at least
\* min_content_length, the request runs no later stage, acquires no further
\* page and makes no further navigation, and what it returns is the output
\* of stage N.
ThresholdMonotonicity ==
  [][LongProduced =>
       /\ req'.fallbackStage = req.fallbackStage
       /\ req'.lens = req.lens
       /\ Len(req'.pages) = Len(req.pages)
       /\ req'.navigations = req.navigations
       /\ req'.source = "pipeline" /\ req'.outcome \in {"none", "result"}
       /\ req'.result = withHeader(convertToMarkdown(stageOptions(req)))]_vars

ThresholdWitness ==
  /\ req.kind = "convert" /\ req.rpc = "sent" /\ req.response.status = "ok"
  /\ req.lens = <<TRUE, FALSE>> /\ req.fallbackStage = 1
  /\ Len(req.pages) = 2 /\ req.navigations = 2

\* A convert request without error whose stages 0 and 1 both produced
\* markdown under min_content_length has returned
TwoShortStagesReturned ==
  /\ req.kind = "convert" /\ ~req.errored /\ Returned
  /\ Len(req.lens) >= 2 /\ req.lens[1] /\ req.lens[2]

\* The pages of the request that are open
OpenPages == {p \in DOMAIN req.pages : req.pages[p] = 0}

\* The output of stage 2: aggressive cleaning off, header in front
StageTwoOutput ==
  [header |-> TRUE, images |-> ~req.options.remove_images, cleaned |-> FALSE,
   none |-> FALSE]

\* C20 as stated: when stages 0 and 1 both produce markdown under
\* min_content_length and no error occurs, convert makes exactly three
\* navigations and returns the output of stage 2.
ThreeNavigationsAsStated ==
  TwoShortStagesReturned =>
    /\ req.navigations = 3
    /\ req.outcome = "result" /\ req.result = StageTwoOutput

\* C20 amended: a convert request without error never has more than one page
\* open; when stages 0 and 1 both produced markdown under min_content_length
\* and the cache lookup at the start of stage 2 found no entry, it made
\* exactly three navigations, every page is closed, and it returns the output
\* of stage 2 whether that is under the threshold or not.
BestEffortAfterTwoShortStages ==
  /\ (req.kind = "convert" /\ ~req.errored) => Cardinality(OpenPages) <= 1
  /\ (TwoShortStagesReturned /\ req.source = "pipeline") =>
       /\ req.navigations = 3 /\ Len(req.pages) = 3 /\ OpenPages = {}
       /\ req.fallbackStage = 2 /\ Len(req.lens) = 3
       /\ req.outcome = "result" /\ req.result = StageTwoOutput

BestEffortWitness ==
  /\ TwoShortStagesReturned /\ req.source = "pipeline" /\ req.rpc = "sent"
  /\ req.lens = <<TRUE, TRUE, TRUE>> /\ req.navigations = 3
  /\ req.response = [status |-> "ok", content |-> StageTwoOutput]

\* A webhook POST fails in this step: the progress webhook of the batch, or
\* the final webhook
ProgressFails == pc = "progress" /\ hookFailed' # hookFailed

FinalFails == pc = "finalhook" /\ hookFailed' # hookFailed

\* C21: a step in which the POST of a webhook fails changes neither the
\* counts, the results nor the error of the job.  After a failed progress
\* webhook the driver goes on as after a delivered one: to the delay before
\* the next batch, which then starts unless the job was cancelled, or after
\* the last batch to the completion of the job.  After a failed final
\* webhook the status stays what it was and the driver ends.
WebhookFailureLeavesJob ==
  [][/\ (ProgressFails \/ FinalFails) =>
          UNCHANGED <<processed, success, failed, results, processedUrlsMap, error>>
     /\ ProgressFails =>
          IF batchIndex < Len(batches)
          THEN pc' = "delay" /\ UNCHANGED <<status, total>>
          ELSE pc' = "finalsave" /\ status' = "completed"
     /\ FinalFails => (pc' = "done" /\ UNCHANGED <<status, total>>)
     /\ (batchIndex >= 1 /\ batchIndex \in hookFailed /\ pc = "delay" /\ pc' # pc
           /\ status # "cancelled") =>
          (batchIndex' = batchIndex + 1 /\ pendingPromises' # {})]_vars

\* C21 witness: the progress webhook of batch 1 failed, batch 2 was
\* processed, the final webhook failed, and the job is completed
WebhookFailureWitness ==
  /\ hookFailed = {0, 1} /\ pc = "done" /\ status = "completed"
  /\ batchIndex = 2 /\ Len(results) = 2 /\ finalSent = 1 /\ progressSent = 2

\* The threshold of the conversion is set to 0: by the option of the request,
\* or by MIN_CONTENT_LENGTH when the request has no such option
ThresholdSetToZero ==
  \/ ladder.min_content_length = Given(0)
  \/ ladder.min_content_length = NotGiven /\ ladder.MIN_CONTENT_LENGTH = Given(0)

\* C22 as stated: with min_content_length (MIN_CONTENT_LENGTH) set to 0 the
\* conversion never scrolls and never enters fallback stage 1 or 2, whatever
\* the lengths of the text and of the markdown of the page.
ZeroThresholdDisablesDynamicHandling ==
  (ladder.pc # "none" /\ ThresholdSetToZero) =>
    /\ ladder.fallbackStage = 0
    /\ ladder.pc # "scroll"
    /\ \A k \in DOMAIN ladder.scrolled : ~ladder.scrolled[k]

\* C30 as stated: the run of fallback stage 1 (the second run of a
\* conversion in which no await throws) scrolls, and runs cleanContent with
\* aggressive cleaning on, whatever the cleaning option of the request and
\* whatever text length the probe reported.
StageOneScrollsAndCleansAggressively ==
  /\ Len(ladder.scrolled) >= 2 => ladder.scrolled[2]
  /\ Len(ladder.cleaning) >= 2 => ladder.cleaning[2]

\* C23 as stated: whatever the HTML, no line of what convertToMarkdown
\* returns holds a pipe, on the transform path and on the plain-text
\* fallback path.
NoPipeInMarkdown ==
  doc.pc = "returned" => "|" \notin Range(doc.out)

\* The driver has left the loop over the batches
AfterLoop == {"finalsave", "finalhook", "failsave", "done"}

\* C24: while the status is cancelled no step starts a batch, and outside a
\* running batch no step passes a URL to processUrl; once the driver has
\* left the loop no URL is passed to processUrl any more; and the batch that
\* was running when cancelJob was called runs to its end, where every URL of
\* it has its result recorded.
NoBatchAfterCancel ==
  [][/\ status = "cancelled" => batchIndex' = batchIndex
     /\ (status = "cancelled" /\ pc \notin {"race", "all"}) =>
          (startedCount' = startedCount /\ pendingPromises' = {})
     /\ pc \in AfterLoop => (startedCount' = startedCount /\ pendingPromises' = {})
     /\ (status = "cancelled" /\ pc = "all" /\ pc' # pc) =>
          \A u \in Range(batches[batchIndex]) : MapHas(results', u)]_vars

\* C24 witness: cancelJob was called during the first of two batches; the
\* URL of the first batch was converted, the URL of the second never started
NoBatchAfterCancelWitness ==
  /\ cfg.urls = <<"a", "b">> /\ cfg.batchSize = 1
  /\ cancelledAt \in {"race", "all"} /\ pc = "done" /\ batchIndex = 1
  /\ startedCount["a"] = 1 /\ startedCount["b"] = 0
  /\ \E i \in DOMAIN results : results[i].url = "a" /\ results[i].success

\* The step that finalizes the job (840-880)
ReconcileStep == pc # "finalsave" /\ pc' = "finalsave"

\* C25: the step that finalizes the job gives every URL of the source that
\* has no entry in the map the failure "URL was skipped during processing",
\* in the map and in the results, and leaves processed, success and failed
\* equal to the counts of the map, with processed = success + failed.
SkippedUrlsReconciled ==
  [][ReconcileStep =>
       /\ \A u \in Range(cfg.urls) : ~MapHas(processedUrlsMap, u) =>
             /\ \E i \in DOMAIN processedUrlsMap' : processedUrlsMap'[i] = failResult(u)
             /\ \E i \in DOMAIN results' : results'[i] = failResult(u)
       /\ \A u \in Range(cfg.urls) : MapHas(processedUrlsMap', u)
       /\ processed' = Len(processedUrlsMap')
       /\ success' = CountSuccess(processedUrlsMap')
       /\ failed' = CountFailed(processedUrlsMap')
       /\ processed' = success' + failed']_vars

\* C25 witness: a job of two URLs finalized with the first converted and the
\* second, never started, reported as skipped
SkippedUrlsWitness ==
  /\ pc = "finalsave" /\ cfg.urls = <<"a", "b">>
  /\ startedCount["b"] = 0
  /\ \E i \in DOMAIN processedUrlsMap : processedUrlsMap[i] = failResult("b")
  /\ \E i \in DOMAIN results : results[i].url = "a" /\ results[i].success
  /\ processed = 2 /\ success = 1 /\ failed = 1

\* The job fields hold the counts of the map and the report file holds them
Recorded ==
  /\ results = processedUrlsMap
  /\ processed = Len(processedUrlsMap)
  /\ success = CountSuccess(processedUrlsMap)
  /\ failed = CountFailed(processedUrlsMap)

Persisted ==
  /\ reportFile.processed = processed
  /\ reportFile.successful = success
  /\ reportFile.failed = failed

\* C26: the step that ends a batch records the outcomes and the counts and
\* hands them to saveJobState; a progress webhook is sent only by the step
\* after that save, with the recorded and persisted counts; the next batch
\* starts only with the counts of the last batch recorded and persisted and,
\* with progressUpdates, its progress webhook sent; the final webhook is
\* sent only by the step after the final save, whose report says completed.
RecordPersistNotifyOrder ==
  [][/\ (pc = "all" /\ pc' = "save") => (Recorded' /\ Persisted')
     /\ progressSent' # progressSent =>
          (pc = "save" /\ pc' = "progress" /\ Recorded /\ Persisted
           /\ progressSent' = batchIndex
           /\ progressPayload'.processed = reportFile.processed)
     /\ (batchIndex >= 1 /\ batchIndex' # batchIndex) =>
          /\ batchIndex' = batchIndex + 1
          /\ pc = "delay" /\ Recorded /\ Persisted
          /\ cfg.webhook = "progress" => progressSent = batchIndex
          /\ cfg.webhook # "progress" => progressSent = 0
     /\ finalSent' # finalSent =>
          (pc = "finalsave" /\ pc' = "finalhook" /\ Recorded /\ Persisted
           /\ reportFile.status = "completed"
           /\ finalPayload'.processed = reportFile.processed)]_vars

\* C26 witness: the second batch of a job with progress updates has been
\* recorded, saved and reported, and the final webhook was sent
RecordPersistNotifyWitness ==
  /\ cfg.webhook = "progress" /\ batchIndex = 2 /\ pc = "done"
  /\ progressSent = 2 /\ finalSent = 1
  /\ reportFile.status = "completed" /\ reportFile.processed = 2
  /\ progressPayload.processed = 2 /\ finalPayload.status = "completed"

\* C27: the wrapper of an item deletes its promise from pendingPromises when
\* processFn has settled, so the pending promises are the invocations in
\* flight; there are never more of them than concurrencyLimit, for every
\* list of items, every limit and every order of completion.
InFlightWithinLimit == Cardinality(pool.pending) <= pool.limit

\* C27 witness: three items under a limit of two; the first result came
\* back and the third item was launched next to the one still running
InFlightWitness ==
  /\ Len(pool.items) = 3 /\ pool.limit = 2
  /\ Len(pool.results) = 1 /\ Cardinality(pool.pending) = 2 /\ 3 \in pool.pending

\* C28: processInBatches never throws; a result taken from an item whose
\* processFn threw is {error, item}; and when it returns, every item has
\* been launched and no invocation is pending.
ThrowBecomesResult ==
  /\ pool.pc # "thrown"
  /\ \A k \in DOMAIN pool.results :
        pool.items[pool.results[k].item] = "throw" => pool.results[k].tag = "error"
  /\ pool.pc = "returned" =>
        (pool.next = Len(pool.items) + 1 /\ pool.pending = {})

\* C28 witness: the first of three items threw under a limit of one; its
\* error is the first result and the two other items ran and returned theirs
ThrowBecomesResultWitness ==
  /\ pool.pc = "returned" /\ pool.limit = 1
  /\ pool.items = <<"throw", "value", "value">>
  /\ pool.returned = <<[item |-> 1, tag |-> "error"], [item |-> 2, tag |-> "value"],
                        [item |-> 3, tag |-> "value"]>>

\* How many entries of the returned array are the result `tag` of item i
occurrences(i, tag) ==
  Cardinality({k \in DOMAIN pool.returned : pool.returned[k] = [item |-> i, tag |-> tag]})

\* C29 as stated: the returned array holds exactly one result for every item
\* whose processFn returned a value that is neither falsy nor an array, and
\* each element of every returned array exactly once.
OneResultPerItem ==
  pool.pc = "returned" =>
    \A i \in DOMAIN pool.items :
       /\ pool.items[i] = "value" => occurrences(i, "value") = 1
       /\ pool.items[i] = "array" => (occurrences(i, "elem1") = 1 /\ occurrences(i, "elem2") = 1)

\* C31 as stated: the run of fallback stage 2 (the third run of a conversion
\* in which no await throws) scrolls whatever text length the probe
\* reported, and runs cleanContent with aggressive cleaning off.
StageTwoScrollsAndCleansPlainly ==
  /\ Len(ladder.scrolled) >= 3 => ladder.scrolled[3]
  /\ Len(ladder.cleaning) >= 3 => ~ladder.cleaning[3]

\* An await of a running conversion throws an error of this kind
ConvertThrows(kind) == req.kind = "convert" /\ (AcquirePage(kind) \/ Convert(kind))

\* C32: in a conversion an error whose message names net::, Navigation
\* timeout or Protocol error (transient) while fewer than MAX_RETRIES retries
\* were made calls convertUrlToMarkdown again with the retry counter one
\* higher and the same fallback stage; with MAX_RETRIES retries made, and
\* for any other error, nothing is called again; and within a request the
\* counter changes in no other way, so that it counts the retries of all
\* stages together and never passes MAX_RETRIES.
RetryOnlyTransientSameStage ==
  [][/\ (ConvertThrows("transient") /\ req.retryCount < MAX_RETRIES) =>
          /\ req'.retryCount = req.retryCount + 1
          /\ req'.fallbackStage = req.fallbackStage
          /\ req'.pc \in {"get", "create", "close", "settled"}
          /\ req'.outcome # "error"
     /\ (ConvertThrows("transient") /\ req.retryCount >= MAX_RETRIES) =>
          /\ req'.retryCount = req.retryCount /\ req'.navigations = req.navigations
          /\ req'.pc \in {"eget", "close", "settled"}
     /\ ConvertThrows("permanent") =>
          /\ req'.retryCount = req.retryCount /\ req'.navigations = req.navigations
          /\ req'.pc \in {"eget", "close", "settled"}
     /\ (req.rpc = "conv" /\ req'.retryCount # req.retryCount) =>
          (ConvertThrows("transient") /\ req.retryCount < MAX_RETRIES)
     /\ req.retryCount <= MAX_RETRIES]_vars

\* C32 witness: a conversion that was retried MAX_RETRIES times and went
\* through both fallback stages has thrown out of stage 2
RetryWitness ==
  /\ req.kind = "convert" /\ req.retryCount = MAX_RETRIES /\ req.fallbackStage = 2
  /\ req.navigations = 3 + MAX_RETRIES /\ req.outcome = "error" /\ req.pc = "settled"

\* An await of a running conversion throws and the error is not retried
FailsFinally ==
  \/ ConvertThrows("permanent")
  \/ ConvertThrows("transient") /\ req.retryCount >= MAX_RETRIES

\* The conversion returns the content of the entry the cache holds now
ReturnsEntry ==
  /\ req'.outcome = "result" /\ req'.result = cache[ReqUrl].content
  /\ req'.pc \in {"close", "settled"}

\* The error is thrown to the caller
Rethrows == req'.outcome = "error" /\ req'.pc \in {"close", "settled"}

\* C33: when a conversion fails finally, then with nocache in the request or
\* the master switch set the error is thrown; otherwise the tier in use is
\* read (at once for the LRU, after an await for Redis) and the content of
\* the entry it holds at that moment is returned, the error being thrown
\* when it holds none.
EmergencyFallback ==
  [][/\ (FailsFinally /\ (req.asked \/ disableAllCaching)) => Rethrows
     /\ (FailsFinally /\ ~(req.asked \/ disableAllCaching)) =>
          IF isRedisEnabled THEN req'.pc = "eget" /\ req'.outcome = "none"
          ELSE IF cache[ReqUrl] # NoEntry THEN ReturnsEntry ELSE Rethrows
     /\ (req.pc = "eget" /\ req'.pc # "eget") =>
          IF cache[ReqUrl] # NoEntry THEN ReturnsEntry ELSE Rethrows]_vars

\* C33 witness: a conversion that missed the cache and used up its retries
\* returned the entry a job stored meanwhile, and the route answered with it
EmergencyFallbackWitness ==
  /\ req.kind = "convert" /\ req.retryCount = MAX_RETRIES /\ req.errored
  /\ req.source = "emergency" /\ req.outcome = "result"
  /\ req.result = processUrlEntry.content
  /\ req.rpc = "sent" /\ req.response = [status |-> "ok", content |-> processUrlEntry.content]

\* The attempt of worker i on its URL fails with an error of this kind
AttemptFails(i, kind) == Pipeline(i, kind) \/ CreatePageFail(i, kind)

\* C34 as stated: a failed attempt on a URL, whatever the kind of the error,
\* is followed by the retry delay and another attempt as long as fewer than
\* retryCount retries were made; and the map never holds more than one
\* result for a URL.
FailedUrlRetriedWhateverTheError ==
  [][/\ \A i \in 1..MaxBatchSize : \A kind \in {"transient", "permanent"} :
          (AttemptFails(i, kind) /\ workers[i].retry < cfg.retryCount) =>
             workers'[i].pc = "sleep"
     /\ \A u \in URLS :
          Cardinality({k \in DOMAIN processedUrlsMap' : processedUrlsMap'[k].url = u}) <= 1]_vars

\* In this step processUrl builds the result of worker i from an attempt on
\* the URL (a result taken from the cache goes from the lookup to the return)
BuildsResult(i) ==
  /\ i \in DOMAIN workers /\ i \in DOMAIN workers'
  /\ workers[i].pc \in {"create", "work", "setcache"}
  /\ workers'[i].pc \in {"close", "ret"}

\* C36: totalProcessed is always successCount + failCount; the step in which
\* processUrl builds a result from an attempt adds one to totalProcessed and
\* one to the counter of its outcome; no other step (a retry, a cache hit, a
\* skipped URL) changes the counters; so whenever no worker is running in a
\* job without cache, totalProcessed is the number of URLs handed to
\* processUrl, whatever retries they took.
MetricsCountEachUrlOnce ==
  [][/\ metrics'.totalProcessed = metrics'.successCount + metrics'.failCount
     /\ \A i \in 1..MaxBatchSize : BuildsResult(i) =>
          /\ metrics'.totalProcessed = metrics.totalProcessed + 1
          /\ metrics'.successCount =
               metrics.successCount + (IF workers'[i].res.success THEN 1 ELSE 0)
     /\ metrics' # metrics => \E i \in 1..MaxBatchSize : BuildsResult(i)
     /\ (pendingPromises' = {} /\ cfg.nocache) =>
          metrics'.totalProcessed = SumOver(startedCount', URLS)]_vars

\* C36 witness: the only URL of a job failed once, was retried and
\* converted, and is counted once, as a success
MetricsWitness ==
  /\ cfg.urls = <<"a">> /\ cfg.nocache
  /\ 1 \in DOMAIN workers /\ workers[1].retry = 1 /\ workers[1].pc = "close"
  /\ workers[1].res.success
  /\ metrics = [totalProcessed |-> 1, successCount |-> 1, failCount |-> 0]

\* C35: once initRedis has completed, Redis is the tier in use only if the
\* client connected and the get of the test returned the value written, and
\* then the client is not null; after any failure of the module load, the
\* connection, the test or the timeout the LRU is the tier in use; and
\* initRedis has set redisInitialized.
TierSelection ==
  redis.pc = "done" =>
    /\ redis.redisInitialized
    /\ isRedisEnabledAfter(redis) =>
          (redis.connected /\ redis.value = "working" /\ redis.redisClient)
    /\ redis.failure => ~isRedisEnabledAfter(redis)

\* C35 witness: initRedis completed with Redis in use after the test
TierSelectionWitness ==
  /\ redis.pc = "done" /\ redis.USE_REDIS = "external" /\ isRedisEnabledAfter(redis)
  /\ redis.value = "working" /\ ~redis.failure

\* What can be observed of the counts: the job fields (read by the status
\* and results routes), the last report written, the last progress payload
Observations == <<getJobStatus, getJobResults, reportFile, progressPayload>>

\* C37: in every state, in the job and in everything observed of it,
\* 0 <= processed <= total, and no step lowers processed in any of them.
ProcessedWithinTotalAndMonotone ==
  [][/\ \A k \in DOMAIN Observations :
          /\ 0 <= Observations[k].processed
          /\ Observations[k].processed <= Observations[k].total
          /\ 0 <= Observations'[k].processed
          /\ Observations'[k].processed <= Observations'[k].total
          /\ Observations'[k].processed >= Observations[k].processed]_vars

\* C37 witness: the progress webhook of the second of three batches reports
\* two of three URLs processed, as does the report
ProcessedMonotoneWitness ==
  /\ pc = "progress" /\ batchIndex = 2 /\ total = 3 /\ processed = 2
  /\ progressPayload.processed = 2 /\ progressPayload.total = 3
  /\ reportFile.processed = 2 /\ getJobStatus.processed = 2

\* The invocations a conversion can still make: one per stage left and one
\* per retry left
InvocationsLeft(r) == (2 - r.fallbackStage) + (MAX_RETRIES - r.retryCount)

\* How far the innermost invocation is from its end
AwaitRank(at) ==
  CASE at = "get" -> 6
    [] at = "create" -> 5
    [] at = "work" -> 4
    [] at \in {"fbclose", "set", "eget"} -> 3
    [] at = "close" -> 2
    [] OTHER -> 1

\* What is left of a conversion: invocations, awaits of the innermost one,
\* and pages of retried invocations still to close
Measure(r) == 7 * InvocationsLeft(r) + AwaitRank(r.pc) + Cardinality(r.closing)

\* C39: while convertUrlToMarkdown runs for a request, every step of it
\* (each the return of a browser or cache operation) lowers a measure that
\* is never negative, so the conversion ends; the stage only goes up, by
\* one, to at most 2; the retry counter only goes up, to at most MAX_RETRIES;
\* a stage change keeps the retry counter and a retry keeps the stage; and
\* at most 3 + MAX_RETRIES pages are acquired.
ConversionTerminates ==
  [][(req.kind = "convert" /\ req.rpc = "conv" /\ req' # req) =>
       /\ Measure(req) >= 0
       /\ req'.rpc = "conv" => (Measure(req') < Measure(req) /\ Measure(req') >= 0)
       /\ req'.fallbackStage \in {req.fallbackStage, req.fallbackStage + 1}
       /\ req'.fallbackStage \in 0..2
       /\ req'.retryCount \in {req.retryCount, req.retryCount + 1}
       /\ req'.retryCount \in 0..MAX_RETRIES
       /\ ~(req'.fallbackStage # req.fallbackStage /\ req'.retryCount # req.retryCount)
       /\ req'.navigations <= 3 + MAX_RETRIES]_vars

\* C39 witness: a conversion that used every stage and every retry, and so
\* acquired 3 + MAX_RETRIES pages, returned a result that was sent
ConversionTerminatesWitness ==
  /\ req.kind = "convert" /\ req.rpc = "sent" /\ req.response.status = "ok"
  /\ req.fallbackStage = 2 /\ req.retryCount = MAX_RETRIES
  /\ req.navigations = 3 + MAX_RETRIES /\ req.source = "pipeline"

\* C40 as stated: once the driver has finished (its last await returned and
\* no step of the job is pending), the summary of the last report written
\* equals what getJobStatus returns, cancelJob called or not.
ReportAgreesWithStatus ==
  pc = "done" => reportFile = getJobStatus

\* C38: with every await returning, whatever writes and POSTs fail, the
\* status of a job becomes completed or failed, failed if its source has no
\* URL; and a job whose source yields no URL is failed with No valid URLs
\* found by the step that learns it, starts no URL and sends no webhook.
JobReachesEnd ==
  /\ <>(/\ status \in {"completed", "failed"}
        /\ Len(cfg.urls) = 0 => status = "failed")
  /\ [](Len(cfg.urls) = 0 =>
         /\ \A u \in URLS : startedCount[u] = 0
         /\ processed = 0 /\ results = <<>> /\ workers = <<>>
         /\ progressSent = 0 /\ finalSent = 0)
  /\ [][(Len(cfg.urls) = 0 /\ (processJob("urls") \/ FetchDone)) =>
         (status' = "failed" /\ error' = "No valid URLs found")]_vars

\* C38 witness: a job of two batches has completed although the POST of a
\* progress webhook, the POST of the final webhook and the last write of
\* the report failed
JobReachesEndWitness ==
  /\ pc = "done" /\ status = "completed" /\ processed = 2
  /\ hookFailed = {0, 1} /\ reportFile.status = "unwritten"
====
